---- MODULE Spec2Model ----
(***************************************************************************)
(* A model of the file-listing and reconciliation engine of the Keypo      *)
(* Synapse storage SDK: SynapseStorageSDK.list (src/src/SynapseStorageSDK.ts)*)
(* and the error normalisation it ends with (ErrorHandler).                *)
(*                                                                         *)
(* One list call is a state machine.  Its awaits are the steps: a page     *)
(* response of the owner or the minter fetch, the synchronous               *)
(* reconciliation of the four event groups once both fetches are done, and *)
(* the answer of the deletion oracle.                                      *)
(***************************************************************************)
EXTENDS Integers, Sequences, FiniteSets, TLC

(***************************************************************************)
(* JavaScript strings are sequences of one-character strings, so that      *)
(* toLowerCase, includes, startsWith and endsWith are computed.            *)
(***************************************************************************)
UpperAlphabet == <<"A", "B", "C", "D", "E", "F", "G", "H", "I", "J", "K", "L", "M", "N", "O", "P", "Q", "R", "S", "T", "U", "V", "W", "X", "Y", "Z">>

LowerAlphabet == <<"a", "b", "c", "d", "e", "f", "g", "h", "i", "j", "k", "l", "m", "n", "o", "p", "q", "r", "s", "t", "u", "v", "w", "x", "y", "z">>

\* the lower-case letter of each upper-case letter
LowerCaseOf ==
  [c \in {UpperAlphabet[i] : i \in 1..Len(UpperAlphabet)} |->
     LowerAlphabet[CHOOSE i \in 1..Len(UpperAlphabet) : UpperAlphabet[i] = c]]

\* String.prototype.toLowerCase, one character
toLowerCaseChar(c) == IF c \in DOMAIN LowerCaseOf THEN LowerCaseOf[c] ELSE c

\* String.prototype.toLowerCase
toLowerCase(s) == [i \in 1..Len(s) |-> toLowerCaseChar(s[i])]

\* String.prototype.includes
includes(s, t) ==
  \E i \in 0..(Len(s) - Len(t)) : SubSeq(s, i + 1, i + Len(t)) = t

\* String.prototype.startsWith
startsWith(s, t) == Len(t) <= Len(s) /\ SubSeq(s, 1, Len(t)) = t

\* String.prototype.endsWith
endsWith(s, t) ==
  Len(t) <= Len(s) /\ SubSeq(s, Len(s) - Len(t) + 1, Len(s)) = t

Digits == <<"0", "1", "2", "3", "4", "5", "6", "7", "8", "9">>

\* the decimal digits of a natural number, as a string
RECURSIVE NumberToString(_)
NumberToString(n) ==
  IF n < 10 THEN <<Digits[n + 1]>>
  ELSE NumberToString(n \div 10) \o <<Digits[(n % 10) + 1]>>

(***************************************************************************)
(* JavaScript values read from a metadata document: a string or undefined. *)
(***************************************************************************)
Undefined == [type |-> "undefined", s |-> <<>>]

Str(s) == [type |-> "string", s |-> s]

\* truthiness of a value: undefined and the empty string are falsy
Truthy(v) == v.type = "string" /\ v.s # <<>>

\* a || b
OrElse(a, b) == IF Truthy(a) THEN a ELSE b

(***************************************************************************)
(* JSON.  A JSON text is a sequence of tokens: an opening brace, key/value *)
(* pairs, a closing brace.  Nested objects are written with their path as  *)
(* the key ("filecoinStorageInfo.pieceCID"), which is all that the         *)
(* optional-chaining reads of list observe.  A parsed object is the        *)
(* sequence of its pairs in insertion order, one pair per key.             *)
(***************************************************************************)
LBrace == [t |-> "{", k |-> "", v |-> Undefined]

RBrace == [t |-> "}", k |-> "", v |-> Undefined]

Pair(key, chars) == [t |-> "pair", k |-> key, v |-> Str(chars)]

\* obj[key], undefined when the object has no such property
Get(obj, key) ==
  IF \E i \in 1..Len(obj) : obj[i].k = key
  THEN obj[CHOOSE i \in 1..Len(obj) : obj[i].k = key].v
  ELSE Undefined

\* obj[key] = v: a repeated key keeps its place and takes the last value
SetField(obj, key, v) ==
  IF \E i \in 1..Len(obj) : obj[i].k = key
  THEN [i \in 1..Len(obj) |-> IF obj[i].k = key THEN [k |-> key, v |-> v] ELSE obj[i]]
  ELSE Append(obj, [k |-> key, v |-> v])

IsWellFormed(text) ==
  /\ Len(text) >= 2
  /\ text[1] = LBrace
  /\ text[Len(text)] = RBrace
  /\ \A i \in 2..(Len(text) - 1) : text[i].t = "pair"

RECURSIVE ParsePairs(_, _, _)
ParsePairs(text, i, obj) ==
  IF i >= Len(text) THEN obj
  ELSE ParsePairs(text, i + 1, SetField(obj, text[i].k, text[i].v))

\* JSON.parse: ok = FALSE stands for the SyntaxError it throws
JSONparse(text) ==
  IF IsWellFormed(text)
  THEN [ok |-> TRUE, value |-> ParsePairs(text, 2, <<>>)]
  ELSE [ok |-> FALSE, value |-> <<>>]

IsDefinedPair(p) == p.v.type # "undefined"

\* JSON.stringify of a parsed object: properties whose value is undefined are left out
JSONstringify(obj) ==
  LET defined == SelectSeq(obj, IsDefinedPair)
  IN <<LBrace>>
       \o [i \in 1..Len(defined) |-> [t |-> "pair", k |-> defined[i].k, v |-> defined[i].v]]
       \o <<RBrace>>

(***************************************************************************)
(* Errors: SDKError and ErrorHandler.normalize.                            *)
(***************************************************************************)
NoError == [name |-> "none", category |-> "none", message |-> <<>>]

Keyword_environment == <<"e", "n", "v", "i", "r", "o", "n", "m", "e", "n", "t">>
Keyword_config == <<"c", "o", "n", "f", "i", "g">>
Keyword_network == <<"n", "e", "t", "w", "o", "r", "k">>
Keyword_timeout == <<"t", "i", "m", "e", "o", "u", "t">>
Keyword_connection == <<"c", "o", "n", "n", "e", "c", "t", "i", "o", "n">>
Keyword_file == <<"f", "i", "l", "e">>
Keyword_enoent == <<"e", "n", "o", "e", "n", "t">>
Keyword_directory == <<"d", "i", "r", "e", "c", "t", "o", "r", "y">>
Keyword_permission == <<"p", "e", "r", "m", "i", "s", "s", "i", "o", "n">>
Keyword_access == <<"a", "c", "c", "e", "s", "s">>
Keyword_denied == <<"d", "e", "n", "i", "e", "d">>
Keyword_encrypt == <<"e", "n", "c", "r", "y", "p", "t">>
Keyword_decrypt == <<"d", "e", "c", "r", "y", "p", "t">>
Keyword_lit_protocol == <<"l", "i", "t", " ", "p", "r", "o", "t", "o", "c", "o", "l">>
Keyword_contract == <<"c", "o", "n", "t", "r", "a", "c", "t">>
Keyword_revert == <<"r", "e", "v", "e", "r", "t">>
Keyword_useroperation == <<"u", "s", "e", "r", "o", "p", "e", "r", "a", "t", "i", "o", "n">>
Keyword_balance == <<"b", "a", "l", "a", "n", "c", "e">>
Keyword_insufficient == <<"i", "n", "s", "u", "f", "f", "i", "c", "i", "e", "n", "t">>
Keyword_usdfc == <<"u", "s", "d", "f", "c">>
Keyword_storage == <<"s", "t", "o", "r", "a", "g", "e">>
Keyword_synapse == <<"s", "y", "n", "a", "p", "s", "e">>
Keyword_filecoin == <<"f", "i", "l", "e", "c", "o", "i", "n">>

\* ErrorHandler.categorizeError: the first keyword group the lower-cased message contains
categorizeError(message) ==
  LET m == toLowerCase(message) IN
  IF includes(m, Keyword_environment) \/ includes(m, Keyword_config)
    THEN "CONFIGURATION"
  ELSE IF includes(m, Keyword_network) \/ includes(m, Keyword_timeout)
          \/ includes(m, Keyword_connection)
    THEN "NETWORK"
  ELSE IF includes(m, Keyword_file) \/ includes(m, Keyword_enoent)
          \/ includes(m, Keyword_directory)
    THEN "FILE"
  ELSE IF includes(m, Keyword_permission) \/ includes(m, Keyword_access)
          \/ includes(m, Keyword_denied)
    THEN "PERMISSION"
  ELSE IF includes(m, Keyword_encrypt) \/ includes(m, Keyword_decrypt)
          \/ includes(m, Keyword_lit_protocol)
    THEN "ENCRYPTION"
  ELSE IF includes(m, Keyword_contract) \/ includes(m, Keyword_revert)
          \/ includes(m, Keyword_useroperation)
    THEN "CONTRACT"
  ELSE IF includes(m, Keyword_balance) \/ includes(m, Keyword_insufficient)
          \/ includes(m, Keyword_usdfc)
    THEN "PAYMENT"
  ELSE IF includes(m, Keyword_storage) \/ includes(m, Keyword_synapse)
          \/ includes(m, Keyword_filecoin)
    THEN "STORAGE"
  ELSE "UNKNOWN"

\* ErrorHandler.normalize of a plain Error with this message
normalize(message) ==
  [name |-> "SDKError", category |-> categorizeError(message), message |-> message]

\* `API request failed with status ${response.status}`
ApiRequestFailedMessage(status) ==
  <<"A", "P", "I", " ", "r", "e", "q", "u", "e", "s", "t", " ", "f", "a", "i", "l", "e", "d", " ", "w", "i", "t", "h", " ", "s", "t", "a", "t", "u", "s", " ">> \o NumberToString(status)

\* the message of the TypeError fetch rejects with when the request cannot be made
FetchRejectionMessage == <<"f", "e", "t", "c", "h", " ", "f", "a", "i", "l", "e", "d">>

\* the message of the SyntaxError JSON.parse throws
JsonSyntaxErrorMessage == <<"U", "n", "e", "x", "p", "e", "c", "t", "e", "d", " ", "e", "n", "d", " ", "o", "f", " ", "J", "S", "O", "N", " ", "i", "n", "p", "u", "t">>

(***************************************************************************)
(* The inputs of a list call: what the indexing API holds for the wallet,  *)
(* and the caller's options.                                               *)
(***************************************************************************)
\* file identifiers: two that differ only in letter case, and another one
Id_AbC123 == <<"A", "b", "C", "1", "2", "3">>

Id_abc123 == <<"a", "b", "c", "1", "2", "3">>

Id_d4 == <<"d", "4">>

Identifiers == {Id_AbC123, Id_abc123, Id_d4}

Name_Invoice == <<"I", "n", "v", "o", "i", "c", "e">>

Name_report == <<"r", "e", "p", "o", "r", "t">>

\* complete: a piece locator under filecoinStorageInfo.pieceCID
MetaInvoice ==
  <<LBrace, Pair("name", Name_Invoice),
    Pair("filecoinStorageInfo.pieceCID", <<"b", "1">>), RBrace>>

\* complete: a piece locator under filecoinStorageInfo.pieceCid
MetaReport ==
  <<LBrace, Pair("name", Name_report),
    Pair("filecoinStorageInfo.pieceCid", <<"b", "2">>), RBrace>>

\* incomplete: an empty locator in the storage-info object, a locator at top level only
MetaNoLocator ==
  <<LBrace, Pair("name", Name_Invoice),
    Pair("filecoinStorageInfo.pieceCID", <<>>), Pair("pieceCid", <<"b", "3">>), RBrace>>

\* incomplete: a locator, and the legacy encrypted-blob marker
MetaLegacy ==
  <<LBrace, Pair("name", Name_Invoice),
    Pair("filecoinStorageInfo.pieceCID", <<"b", "4">>),
    Pair("encryptedData.ipfsHash", <<"Q", "m">>), RBrace>>

\* not valid JSON: the text ends before the closing brace
MetaMalformed == <<LBrace, Pair("name", Name_Invoice)>>

Metadatas == {MetaInvoice, MetaReport, MetaNoLocator, MetaLegacy, MetaMalformed}

Roles == {"owner", "minter"}

Kinds == {"permissionedFileDeployeds", "permissionedFileAccessMinteds"}

\* the four event groups in the order list processes them
Groups ==
  << [role |-> "owner", kind |-> "permissionedFileDeployeds"],
     [role |-> "owner", kind |-> "permissionedFileAccessMinteds"],
     [role |-> "minter", kind |-> "permissionedFileDeployeds"],
     [role |-> "minter", kind |-> "permissionedFileAccessMinteds"] >>

\* Every event of the API carries a contract address and an owner of its own, so
\* that the event a returned entry was built from can be told from the entry.
ContractAt(role, kind, i) == <<"contract", role, kind, i>>

OwnerAt(role, kind, i) == <<"owner", role, kind, i>>

\* the events of one stream, given the identifier and the metadata of each
StreamOf(role, kind, raw) ==
  [i \in 1..Len(raw) |->
     [fileIdentifier |-> raw[i][1],
      fileMetadata |-> raw[i][2],
      fileContractAddress |-> ContractAt(role, kind, i),
      fileOwner |-> OwnerAt(role, kind, i)]]

\* the number of events the API holds for the wallet, over the four streams
MaxEvents == 2

\* the largest page size a caller asks for
MaxPageSize == 2

\* The events the API may hold, as an identifier and a metadata text.  For the
\* identifier written in two letter cases: both complete documents and both
\* incomplete ones; for the other identifier: a complete document and one that
\* is not valid JSON.
RawEvents ==
  { <<Id_AbC123, MetaInvoice>>, <<Id_abc123, MetaReport>>,
    <<Id_abc123, MetaNoLocator>>, <<Id_AbC123, MetaLegacy>>,
    <<Id_d4, MetaInvoice>>, <<Id_d4, MetaMalformed>> }

\* how many events each of the four streams holds
StreamLengths ==
  { l \in [1..4 -> 0..MaxEvents] : l[1] + l[2] + l[3] + l[4] <= MaxEvents }

ApiContentOf(od, om, md, mm) ==
  [owner |->
     [permissionedFileDeployeds |-> StreamOf("owner", "permissionedFileDeployeds", od),
      permissionedFileAccessMinteds |-> StreamOf("owner", "permissionedFileAccessMinteds", om)],
   minter |->
     [permissionedFileDeployeds |-> StreamOf("minter", "permissionedFileDeployeds", md),
      permissionedFileAccessMinteds |-> StreamOf("minter", "permissionedFileAccessMinteds", mm)]]

\* the API's content: for each role the two event streams it holds
ApiContents ==
  UNION { { ApiContentOf(od, om, md, mm) :
              od \in [1..l[1] -> RawEvents], om \in [1..l[2] -> RawEvents],
              md \in [1..l[3] -> RawEvents], mm \in [1..l[4] -> RawEvents] } :
          l \in StreamLengths }

NoFilter == [field |-> "", value |-> <<>>, operator |-> ""]

NoSort == [field |-> "", direction |-> ""]

\* options.filter.filterBy
FilterOptions ==
  { NoFilter, [field |-> "name", value |-> <<"i", "n", "v">>, operator |-> "contains"] }

\* options.filter.sortBy
SortOptions == { NoSort }

\* options.filter.pagination.maxPages: not given (0), or one page
MaxPagesOptions == { 0, 1 }

\* ListOptions: a page size is given, and at most one of maxPages and filterBy
ListOptionsSet ==
  { o \in [pageSize : 1..MaxPageSize, maxPages : MaxPagesOptions,
           filterBy : FilterOptions, sortBy : SortOptions] :
      o.maxPages = 0 \/ o.filterBy = NoFilter }

(***************************************************************************)
(* JavaScript objects with string keys.  A map from identifiers to file    *)
(* records is the sequence of its records in insertion order; Object.keys  *)
(* and Object.entries list integer-like keys first, in ascending numeric   *)
(* order, and the other keys in insertion order.                           *)
(***************************************************************************)
DigitValue(c) == CHOOSE d \in 0..9 : Digits[d + 1] = c

IsDigit(c) == \E d \in 0..9 : Digits[d + 1] = c

RECURSIVE StringToNumber(_)
StringToNumber(s) ==
  IF s = <<>> THEN 0
  ELSE 10 * StringToNumber(SubSeq(s, 1, Len(s) - 1)) + DigitValue(s[Len(s)])

\* A canonical array index: integer-like keys are the ones enumerated first.
\* Keys of up to nine digits are all below the largest array index, 2^32 - 2;
\* the identifiers of the model are shorter than that.
IsArrayIndex(key) ==
  /\ Len(key) >= 1
  /\ Len(key) <= 9
  /\ \A i \in 1..Len(key) : IsDigit(key[i])
  /\ (Len(key) = 1 \/ key[1] # "0")

IsIndexKeyed(file) == IsArrayIndex(file.dataIdentifier)

IsStringKeyed(file) == ~IsArrayIndex(file.dataIdentifier)

RECURSIVE AscendingByIndex(_)
AscendingByIndex(files) ==
  IF files = <<>> THEN <<>>
  ELSE LET m == CHOOSE i \in 1..Len(files) :
                  \A j \in 1..Len(files) :
                    StringToNumber(files[i].dataIdentifier)
                      <= StringToNumber(files[j].dataIdentifier)
       IN <<files[m]>>
            \o AscendingByIndex([i \in 1..(Len(files) - 1) |->
                                   IF i < m THEN files[i] ELSE files[i + 1]])

\* Object.entries(obj): the records in the object's own-property order
ObjectEntries(obj) ==
  AscendingByIndex(SelectSeq(obj, IsIndexKeyed)) \o SelectSeq(obj, IsStringKeyed)

\* Object.keys(obj)
ObjectKeys(obj) ==
  LET entries == ObjectEntries(obj)
  IN [i \in 1..Len(entries) |-> entries[i].dataIdentifier]

\* key in obj
HasKey(obj, key) == \E i \in 1..Len(obj) : obj[i].dataIdentifier = key

(***************************************************************************)
(* The helpers of list.                                                    *)
(***************************************************************************)
\* pageSize = options.filter.pagination.pageSize || 100
DefaultPageSize == 100

PageSizeOf(o) == IF o.pageSize = 0 THEN DefaultPageSize ELSE o.pageSize

\* a loop condition that forgets maxPages
BelowMaxPages_Unbounded(page, o) == TRUE

\* page < maxPages, with maxPages = options.filter.pagination.maxPages || Infinity
BelowMaxPages(page, o) == IF o.maxPages = 0 THEN TRUE ELSE page < o.maxPages

extractMetadata(fileMetadata) ==
  [name |-> Get(fileMetadata, "name"),
   type |-> Get(fileMetadata, "type"),
   mimeType |-> Get(fileMetadata, "mimeType"),
   subtype |-> Get(fileMetadata, "subtype"),
   pieceCid |->
     OrElse(Get(fileMetadata, "filecoinStorageInfo.pieceCID"),
       OrElse(Get(fileMetadata, "filecoinStorageInfo.pieceCid"),
         OrElse(Get(fileMetadata, "pieceCID"), Get(fileMetadata, "pieceCid")))),
   accessType |-> Get(fileMetadata, "accessType"),
   userMetaData |-> JSONstringify(fileMetadata)]

hasFilecoinStorage(fileMetadata) ==
  \/ Truthy(Get(fileMetadata, "filecoinStorageInfo.pieceCID"))
  \/ Truthy(Get(fileMetadata, "filecoinStorageInfo.pieceCid"))

\* a completeness check that forgets the legacy encrypted-blob marker
hasRequiredMetadata_LocatorOnly(fileMetadata) == hasFilecoinStorage(fileMetadata)

hasRequiredMetadata(fileMetadata) ==
  IF ~hasFilecoinStorage(fileMetadata) THEN FALSE
  ELSE IF Truthy(Get(fileMetadata, "encryptedData.ipfsHash")) THEN FALSE
  ELSE TRUE

\* file.dataMetadata[field], for the fields whose value is a plain string
FieldValue(dataMetadata, field) ==
  CASE field = "name" -> dataMetadata.name
    [] field = "type" -> dataMetadata.type
    [] field = "mimeType" -> dataMetadata.mimeType
    [] field = "subtype" -> dataMetadata.subtype
    [] field = "pieceCid" -> dataMetadata.pieceCid
    [] field = "accessType" -> dataMetadata.accessType
    [] OTHER -> Undefined

\* a filter that reads every operator as contains
matchesFilter_AlwaysContains(file, filterBy) ==
  IF filterBy = NoFilter THEN TRUE
  ELSE LET fieldValue == FieldValue(file.dataMetadata, filterBy.field) IN
       IF fieldValue = Undefined THEN FALSE
       ELSE includes(toLowerCase(fieldValue.s), toLowerCase(filterBy.value))

matchesFilter(file, filterBy) ==
  IF filterBy = NoFilter THEN TRUE
  ELSE LET fieldValue == FieldValue(file.dataMetadata, filterBy.field) IN
       IF fieldValue = Undefined THEN FALSE
       ELSE CASE filterBy.operator = "contains" ->
                   includes(toLowerCase(fieldValue.s), toLowerCase(filterBy.value))
              [] filterBy.operator = "startsWith" ->
                   startsWith(toLowerCase(fieldValue.s), toLowerCase(filterBy.value))
              [] filterBy.operator = "endsWith" ->
                   endsWith(toLowerCase(fieldValue.s), toLowerCase(filterBy.value))
              [] OTHER ->
                   toLowerCase(fieldValue.s) = toLowerCase(filterBy.value)

\* the InternalFileEntry list builds from an event
InternalFileEntry(file, dataIdentifier, fileMetadata, isAccessMinted) ==
  [cid |->
     OrElse(Get(fileMetadata, "filecoinStorageInfo.pieceCID"),
       OrElse(Get(fileMetadata, "filecoinStorageInfo.pieceCid"), Str(<<>>))),
   dataContractAddress |-> file.fileContractAddress,
   dataIdentifier |-> dataIdentifier,
   dataMetadata |-> extractMetadata(fileMetadata),
   owner |-> file.fileOwner,
   isAccessMinted |-> isAccessMinted]

\* an accessMintedFileIds that collects the owner fetch only
accessMintedFileIds_OwnerOnly(ownerData, minterData) ==
  { toLowerCase(ownerData.permissionedFileAccessMinteds[i].fileIdentifier) :
      i \in 1..Len(ownerData.permissionedFileAccessMinteds) }

\* accessMintedFileIds: the lower-cased identifiers of both access-minted arrays
accessMintedFileIds(ownerData, minterData) ==
  { toLowerCase(ownerData.permissionedFileAccessMinteds[i].fileIdentifier) :
      i \in 1..Len(ownerData.permissionedFileAccessMinteds) }
  \cup
  { toLowerCase(minterData.permissionedFileAccessMinteds[i].fileIdentifier) :
      i \in 1..Len(minterData.permissionedFileAccessMinteds) }

\* allFiles[dataIdentifier] = fileData
SetFile(allFiles, fileData) ==
  IF HasKey(allFiles, fileData.dataIdentifier)
  THEN [i \in 1..Len(allFiles) |->
          IF allFiles[i].dataIdentifier = fileData.dataIdentifier
          THEN fileData ELSE allFiles[i]]
  ELSE Append(allFiles, fileData)

\* a key that keeps the letter case of the event's identifier
dataIdentifierOf_CaseKept(file) == file.fileIdentifier

\* const dataIdentifier = file.fileIdentifier.toLowerCase()
dataIdentifierOf(file) == toLowerCase(file.fileIdentifier)

\* One pass of a processing loop of list: the event is skipped when its
\* lower-cased identifier was processed, when its metadata is incomplete or when
\* it does not match the filter.  JSON.parse is not guarded: threw records the
\* SyntaxError that leaves the loops.
ProcessEvent(file, st, fromAccessMinted, mintedIds, filterBy) ==
  LET dataIdentifier == dataIdentifierOf(file) IN
  IF st.threw \/ dataIdentifier \in st.processedFileIds THEN st
  ELSE LET parsed == JSONparse(file.fileMetadata) IN
       IF ~parsed.ok THEN [st EXCEPT !.threw = TRUE]
       ELSE IF ~hasRequiredMetadata(parsed.value) THEN st
       ELSE LET fileData ==
                  InternalFileEntry(file, dataIdentifier, parsed.value,
                    IF fromAccessMinted THEN TRUE ELSE dataIdentifier \in mintedIds)
            IN IF matchesFilter(fileData, filterBy)
               THEN [allFiles |-> SetFile(st.allFiles, fileData),
                     processedFileIds |-> st.processedFileIds \cup {dataIdentifier},
                     threw |-> FALSE]
               ELSE st

\* a processing loop of list over one event array, from its i-th event on
RECURSIVE ProcessGroup(_, _, _, _, _, _)
ProcessGroup(events, i, st, fromAccessMinted, mintedIds, filterBy) ==
  IF i > Len(events) THEN st
  ELSE ProcessGroup(events, i + 1,
         ProcessEvent(events[i], st, fromAccessMinted, mintedIds, filterBy),
         fromAccessMinted, mintedIds, filterBy)

\* the processing loops with the minter fetch taken before the owner fetch
ProcessAllFiles_MinterFirst(ownerData, minterData, filterBy) ==
  LET ids == accessMintedFileIds(ownerData, minterData)
      s0 == [allFiles |-> <<>>, processedFileIds |-> {}, threw |-> FALSE]
      s1 == ProcessGroup(minterData.permissionedFileDeployeds, 1, s0, FALSE, ids, filterBy)
      s2 == ProcessGroup(minterData.permissionedFileAccessMinteds, 1, s1, TRUE, ids, filterBy)
      s3 == ProcessGroup(ownerData.permissionedFileDeployeds, 1, s2, FALSE, ids, filterBy)
  IN ProcessGroup(ownerData.permissionedFileAccessMinteds, 1, s3, TRUE, ids, filterBy)

\* the four processing loops, in the order of the source
ProcessAllFiles(ownerData, minterData, filterBy) ==
  LET ids == accessMintedFileIds(ownerData, minterData)
      s0 == [allFiles |-> <<>>, processedFileIds |-> {}, threw |-> FALSE]
      s1 == ProcessGroup(ownerData.permissionedFileDeployeds, 1, s0, FALSE, ids, filterBy)
      s2 == ProcessGroup(ownerData.permissionedFileAccessMinteds, 1, s1, TRUE, ids, filterBy)
      s3 == ProcessGroup(minterData.permissionedFileDeployeds, 1, s2, FALSE, ids, filterBy)
  IN ProcessGroup(minterData.permissionedFileAccessMinteds, 1, s3, TRUE, ids, filterBy)

\* deletionStatuses[dataIdentifier] || false
IsDeleted(deletionStatuses, dataIdentifier) ==
  dataIdentifier \in DOMAIN deletionStatuses /\ deletionStatuses[dataIdentifier]

\* a deletion filter that keeps every record
FilterDeleted_KeepAll(allFiles, deletionStatuses) == ObjectEntries(allFiles)

\* a deletion filter that hands the kept records over last first
FilterDeleted_Reversed(allFiles, deletionStatuses) ==
  LET Kept(file) == ~IsDeleted(deletionStatuses, file.dataIdentifier)
      kept == SelectSeq(ObjectEntries(allFiles), Kept)
  IN [i \in 1..Len(kept) |-> kept[Len(kept) + 1 - i]]

\* finalFiles after a successful oracle answer: the records not reported deleted
FilterDeleted(allFiles, deletionStatuses) ==
  LET Kept(file) == ~IsDeleted(deletionStatuses, file.dataIdentifier)
  IN SelectSeq(ObjectEntries(allFiles), Kept)

\* a catch that leaves finalFiles empty
IncludeAll_Nothing(allFiles) == <<>>

\* finalFiles after a failed oracle request: Object.assign(finalFiles, allFiles)
IncludeAll(allFiles) == ObjectEntries(allFiles)

(***************************************************************************)
(* Sorting: String.prototype.localeCompare on the strings of the model     *)
(* (digits before letters, letters by alphabet, lower case before upper    *)
(* case when nothing else differs), and a stable sort.                     *)
(***************************************************************************)
CollationAlphabet == Digits \o LowerAlphabet

CollationRank(c) ==
  IF \E i \in 1..Len(CollationAlphabet) : CollationAlphabet[i] = toLowerCaseChar(c)
  THEN CHOOSE i \in 1..Len(CollationAlphabet) : CollationAlphabet[i] = toLowerCaseChar(c)
  ELSE 0

RECURSIVE ComparePrimary(_, _, _)
ComparePrimary(a, b, i) ==
  IF i > Len(a) /\ i > Len(b) THEN 0
  ELSE IF i > Len(a) THEN -1
  ELSE IF i > Len(b) THEN 1
  ELSE IF CollationRank(a[i]) < CollationRank(b[i]) THEN -1
  ELSE IF CollationRank(a[i]) > CollationRank(b[i]) THEN 1
  ELSE ComparePrimary(a, b, i + 1)

localeCompare(a, b) ==
  IF ComparePrimary(a, b, 1) # 0 THEN ComparePrimary(a, b, 1)
  ELSE IF a = b THEN 0
  ELSE LET i == CHOOSE j \in 1..Len(a) :
                  a[j] # b[j] /\ \A h \in 1..(j - 1) : a[h] = b[h]
       IN IF a[i] = toLowerCaseChar(a[i]) THEN -1 ELSE 1

\* the comparator list hands to Array.prototype.sort
SortComparator(a, b, sortBy) ==
  LET aValue == FieldValue(a.dataMetadata, sortBy.field)
      bValue == FieldValue(b.dataMetadata, sortBy.field)
  IN IF aValue = Undefined /\ bValue = Undefined THEN 0
     ELSE IF aValue = Undefined THEN (IF sortBy.direction = "desc" THEN 1 ELSE -1)
     ELSE IF bValue = Undefined THEN (IF sortBy.direction = "desc" THEN -1 ELSE 1)
     ELSE IF sortBy.direction = "desc"
          THEN 0 - localeCompare(aValue.s, bValue.s)
          ELSE localeCompare(aValue.s, bValue.s)

\* x inserted before the first record that must follow it
InsertSorted(sorted, x, sortBy) ==
  IF \E i \in 1..Len(sorted) : SortComparator(x, sorted[i], sortBy) < 0
  THEN LET p == CHOOSE i \in 1..Len(sorted) :
                  /\ SortComparator(x, sorted[i], sortBy) < 0
                  /\ \A j \in 1..(i - 1) : SortComparator(x, sorted[j], sortBy) >= 0
       IN SubSeq(sorted, 1, p - 1) \o <<x>> \o SubSeq(sorted, p, Len(sorted))
  ELSE Append(sorted, x)

\* Array.prototype.sort (stable) of the entries from the i-th on
RECURSIVE StableSort(_, _, _, _)
StableSort(entries, i, sorted, sortBy) ==
  IF i > Len(entries) THEN sorted
  ELSE StableSort(entries, i + 1, InsertSorted(sorted, entries[i], sortBy), sortBy)

\* sortedFiles: finalFiles, or Object.fromEntries of its sorted entries
SortFiles(finalFiles, sortBy) ==
  IF sortBy = NoSort THEN finalFiles
  ELSE StableSort(ObjectEntries(finalFiles), 1, <<>>, sortBy)

(***************************************************************************)
(* Projection to FileListEntry.                                            *)
(***************************************************************************)
Name_Unknown == <<"U", "n", "k", "n", "o", "w", "n">>

Value_public == <<"p", "u", "b", "l", "i", "c">>

ToFileListEntry(file) ==
  LET parsed == JSONparse(file.dataMetadata.userMetaData)
      fullMetadata == IF parsed.ok THEN parsed.value ELSE <<>>
      size == Get(fullMetadata, "size")
      fileSize == Get(fullMetadata, "fileSize")
      nestedTimestamp == Get(fullMetadata, "filecoinStorageInfo.uploadTimestamp")
      uploadTimestamp == Get(fullMetadata, "uploadTimestamp")
  IN [fileName |-> OrElse(file.dataMetadata.name, Str(Name_Unknown)),
      pieceCid |-> OrElse(file.dataMetadata.pieceCid, OrElse(file.cid, Str(<<>>))),
      dataIdentifier |-> file.dataIdentifier,
      fileSize |->
        IF Truthy(size) THEN size
        ELSE IF Truthy(fileSize) THEN fileSize
        ELSE Undefined,
      isPublic |-> file.dataMetadata.accessType = Str(Value_public),
      encrypted |-> TRUE,
      uploadedAt |->
        IF Truthy(nestedTimestamp) THEN nestedTimestamp
        ELSE IF Truthy(uploadTimestamp) THEN uploadTimestamp
        ELSE Undefined,
      contractAddress |-> file.dataContractAddress,
      owner |-> file.owner,
      isAccessMinted |-> file.isAccessMinted,
      shares |-> <<>>,
      status |-> "active",
      metadata |-> fullMetadata]

\* fileArray: the entries of sortedFiles, projected
FileArray(finalFiles, sortBy) ==
  LET sortedFiles == SortFiles(finalFiles, sortBy)
      entries == ObjectEntries(sortedFiles)
  IN [i \in 1..Len(entries) |-> ToFileListEntry(entries[i])]

(***************************************************************************)
(* The state of one call, of list or of listPublic.                        *)
(***************************************************************************)
VARIABLES
  api,        \* what the indexing API holds for the wallet (never changes)
  options,    \* the ListOptions of the call
  pc,         \* "fetching", "awaitOracle", "returned" or "threw"
  fetch,      \* per role: allData, skip, page and hasMore of fetchAllPages
  allFiles,   \* the reconciled map, once both fetches are done
  oracle,     \* the deletion-oracle request and its outcome
  fault,      \* the request or step that failed, if one did
  result,     \* fileArray, the array list returns
  thrown,     \* the error list throws
  requests,   \* per role: skip and first of the page requests sent, in order
  op          \* the operation that calls list (delete, share, a caller calling
              \* twice) or the download call, and how far it has come

vars == <<api, options, pc, fetch, allFiles, oracle, fault, result, thrown, requests, op>>

\* list or listPublic is called on its own
NoOp == [name |-> "none"]

RoleOf(isOwner) == IF isOwner THEN "owner" ELSE "minter"

\* the page the API answers with: both arrays cut by the same skip and first
PageOf(streams, skip, first) ==
  [permissionedFileDeployeds |->
     SubSeq(streams.permissionedFileDeployeds, skip + 1,
            IF skip + first < Len(streams.permissionedFileDeployeds)
            THEN skip + first ELSE Len(streams.permissionedFileDeployeds)),
   permissionedFileAccessMinteds |->
     SubSeq(streams.permissionedFileAccessMinteds, skip + 1,
            IF skip + first < Len(streams.permissionedFileAccessMinteds)
            THEN skip + first ELSE Len(streams.permissionedFileAccessMinteds))]

\* sent: how many requests the call has sent to the oracle
NoOracle == [status |-> "none", request |-> <<>>, deletedFiles |-> <<>>, sent |-> 0]

\* page: how many pages the failing fetch had received before
NoFault == [at |-> "none", role |-> "", status |-> 0, page |-> 0]

\* the non-2xx statuses the API answers with when it fails
HttpErrorStatuses == {404, 500}

\* what list throws when a page request is answered with a non-2xx status
PageStatusError == [status \in HttpErrorStatuses |-> normalize(ApiRequestFailedMessage(status))]

\* what list throws when the fetch of a page request rejects
PageRejectionError == normalize(FetchRejectionMessage)

\* what list throws when JSON.parse throws
JsonSyntaxError == normalize(JsonSyntaxErrorMessage)

InitFetch ==
  [allData |-> [permissionedFileDeployeds |-> <<>>, permissionedFileAccessMinteds |-> <<>>],
   skip |-> 0, page |-> 0, hasMore |-> TRUE]

Init ==
  /\ api \in ApiContents
  /\ options \in ListOptionsSet
  /\ pc = "fetching"
  /\ fetch = [r \in Roles |-> InitFetch]
  /\ allFiles = <<>>
  /\ oracle = NoOracle
  /\ fault = NoFault
  /\ result = <<>>
  /\ thrown = NoError
  /\ requests = [r \in Roles |-> <<>>]
  /\ op = NoOp

\* one skip counter that the two fetches share
SkipOf_Shared(r) == fetch["owner"].skip + fetch["minter"].skip

\* let skip = 0: each fetchAllPages call has a skip counter of its own
SkipOf(r) == fetch[r].skip

\* the page request of the loop turn of a role: skip=${skip}&first=${pageSize}
PageRequest(r) == [skip |-> SkipOf(r), first |-> PageSizeOf(options)]

\* a loop that goes on until two pages past the first short one
LoopRunning_PastShortPage(r) ==
  /\ BelowMaxPages(fetch[r].page, options)
  /\ fetch[r].hasMore \/ fetch[r].skip <= Len(api[r].permissionedFileDeployeds) + PageSizeOf(options)

\* while (hasMore && page < maxPages)
LoopRunning(r) == fetch[r].hasMore /\ BelowMaxPages(fetch[r].page, options)

\* a hasMore that stops the loop at an empty page only
HasMore_UntilEmpty(pageData, pageSize) == Len(pageData.permissionedFileDeployeds) > 0

\* hasMore = (pageData.permissionedFileDeployeds || []).length === pageSize
HasMore(pageData, pageSize) == Len(pageData.permissionedFileDeployeds) = pageSize

\* One turn of the loop of fetchAllPages whose page request succeeds.
FetchPageOk(isOwner) ==
  LET r == RoleOf(isOwner)
      pageSize == PageSizeOf(options)
      pageData == PageOf(api[r], SkipOf(r), pageSize)
  IN /\ pc = "fetching"
     /\ LoopRunning(r)
     /\ fetch' = [fetch EXCEPT ![r] =
          [allData |->
             [permissionedFileDeployeds |->
                fetch[r].allData.permissionedFileDeployeds
                  \o pageData.permissionedFileDeployeds,
              permissionedFileAccessMinteds |->
                fetch[r].allData.permissionedFileAccessMinteds
                  \o pageData.permissionedFileAccessMinteds],
           skip |-> fetch[r].skip + pageSize,
           page |-> fetch[r].page + 1,
           hasMore |-> HasMore(pageData, pageSize)]]
     /\ requests' = [requests EXCEPT ![r] = Append(@, PageRequest(r))]
     /\ UNCHANGED <<api, options, pc, allFiles, oracle, fault, result, thrown, op>>

\* a page failure that is tolerated: the loop of that role ends and the call goes
\* on with the pages collected so far
FetchPageFail_Tolerant(isOwner) ==
  LET r == RoleOf(isOwner)
  IN /\ pc = "fetching"
     /\ LoopRunning(r)
     /\ fault' = [at |-> "page", role |-> r, status |-> 0, page |-> fetch[r].page]
     /\ fetch' = [fetch EXCEPT ![r].hasMore = FALSE]
     /\ requests' = [requests EXCEPT ![r] = Append(@, PageRequest(r))]
     /\ UNCHANGED <<api, options, pc, allFiles, oracle, result, thrown, op>>

\* A page request that fails rejects fetchAllPages, Promise.all and, through the
\* catch of list, the call: list throws ErrorHandler.normalize(error).
FetchPageFail(isOwner) ==
  LET r == RoleOf(isOwner)
  IN /\ pc = "fetching"
     /\ LoopRunning(r)
     /\ \/ \E status \in HttpErrorStatuses :
             /\ fault' = [at |-> "page", role |-> r, status |-> status,
                          page |-> fetch[r].page]
             /\ thrown' = PageStatusError[status]
        \/ /\ fault' = [at |-> "page", role |-> r, status |-> 0,
                        page |-> fetch[r].page]
           /\ thrown' = PageRejectionError
     /\ pc' = "threw"
     /\ requests' = [requests EXCEPT ![r] = Append(@, PageRequest(r))]
     /\ UNCHANGED <<api, options, fetch, allFiles, oracle, result, op>>

\* a Promise.all that resolves with the first fetch that returns
BothFetched_Either == pc = "fetching" /\ \E r \in Roles : ~LoopRunning(r)

\* both fetchAllPages calls have returned
BothFetched == pc = "fetching" /\ \A r \in Roles : ~LoopRunning(r)

\* a check that asks the oracle about an empty batch too
NeedsOracle_Always(allFileIdentifiers) == TRUE

\* if (allFileIdentifiers.length > 0)
NeedsOracle(allFileIdentifiers) == Len(allFileIdentifiers) > 0

\* Once both fetches are done list runs, without awaiting, from the processing
\* loops to the oracle request.  Metadata that is not valid JSON makes JSON.parse
\* throw, and the catch of list rethrows it normalised; when no record passed,
\* no oracle request is made and list returns at once; otherwise one batched
\* request goes to the deletion oracle.
Reconcile ==
  /\ BothFetched
  /\ LET processed ==
           ProcessAllFiles(fetch["owner"].allData, fetch["minter"].allData,
                           options.filterBy)
         allFileIdentifiers == ObjectKeys(processed.allFiles)
     IN \/ /\ processed.threw
           /\ pc' = "threw"
           /\ fault' = [at |-> "parse", role |-> "", status |-> 0, page |-> 0]
           /\ thrown' = JsonSyntaxError
           /\ UNCHANGED <<allFiles, oracle, result>>
        \/ /\ ~processed.threw
           /\ ~NeedsOracle(allFileIdentifiers)
           /\ allFiles' = processed.allFiles
           /\ result' = FileArray(<<>>, options.sortBy)
           /\ pc' = "returned"
           /\ UNCHANGED <<oracle, fault, thrown>>
        \/ /\ ~processed.threw
           /\ NeedsOracle(allFileIdentifiers)
           /\ allFiles' = processed.allFiles
           /\ oracle' = [status |-> "asked", request |-> allFileIdentifiers,
                         deletedFiles |-> <<>>, sent |-> oracle.sent + 1]
           /\ pc' = "awaitOracle"
           /\ UNCHANGED <<fault, result, thrown>>
  /\ UNCHANGED <<api, options, fetch, requests, op>>

\* The deletedFiles objects the oracle may answer a request with: every
\* identifier asked for is reported, deleted or not, and so may be identifiers
\* that differ from them in letter case only; or the answer has no deletedFiles
\* (data.deletedFiles || {}).
OracleAnswers(request) ==
  LET asked == {request[i] : i \in 1..Len(request)}
      keys == {id \in Identifiers : toLowerCase(id) \in asked}
  IN { [id \in asked \cup D |-> id \in D] : D \in SUBSET keys } \cup { <<>> }

\* The oracle answers: the records it reports deleted are left out.
OracleOk ==
  /\ pc = "awaitOracle"
  /\ \E deletionStatuses \in OracleAnswers(oracle.request) :
       /\ oracle' = [oracle EXCEPT !.status = "ok", !.deletedFiles = deletionStatuses]
       /\ result' = FileArray(FilterDeleted(allFiles, deletionStatuses), options.sortBy)
  /\ pc' = "returned"
  /\ UNCHANGED <<api, options, fetch, allFiles, fault, thrown, requests, op>>

\* The oracle request fails (a non-2xx answer or a rejected fetch): the inner
\* catch of list warns and includes every record.
OracleFail ==
  /\ pc = "awaitOracle"
  /\ \/ \E status \in HttpErrorStatuses :
          fault' = [at |-> "oracle", role |-> "", status |-> status, page |-> 0]
     \/ fault' = [at |-> "oracle", role |-> "", status |-> 0, page |-> 0]
  /\ oracle' = [oracle EXCEPT !.status = "failed"]
  /\ result' = FileArray(IncludeAll(allFiles), options.sortBy)
  /\ pc' = "returned"
  /\ UNCHANGED <<api, options, fetch, allFiles, thrown, requests, op>>

Next ==
  \/ \E isOwner \in BOOLEAN : FetchPageOk(isOwner)
  \/ \E isOwner \in BOOLEAN : FetchPageFail(isOwner)
  \/ Reconcile
  \/ OracleOk
  \/ OracleFail

Spec == Init /\ [][Next]_vars

(***************************************************************************)
(* list calls with a filterBy or a sortBy: the wallet owns a few files     *)
(* whose names and sizes differ, or are missing.                           *)
(***************************************************************************)
Id_e5 == <<"e", "5">>

Name_myInvoice == <<"m", "y", "I", "n", "v", "o", "i", "c", "e">>

Value_invoice == <<"i", "n", "v", "o", "i", "c", "e">>

Value_INVOICE == <<"I", "N", "V", "O", "I", "C", "E">>

\* complete, without a name, two bytes long
MetaNoName ==
  <<LBrace, Pair("filecoinStorageInfo.pieceCID", <<"b", "5">>), Pair("size", <<"2">>), RBrace>>

\* complete, one byte long
MetaSmall ==
  <<LBrace, Pair("name", Name_myInvoice),
    Pair("filecoinStorageInfo.pieceCID", <<"b", "6">>), Pair("size", <<"1">>), RBrace>>

ViewRawEvents ==
  { <<Id_AbC123, MetaInvoice>>, <<Id_d4, MetaReport>>, <<Id_e5, MetaNoName>>,
    <<Id_d4, MetaSmall>>, <<Id_e5, MetaSmall>>, <<Id_abc123, MetaNoName>> }

\* the events are all deploy events of files the wallet owns
ViewApiContents ==
  UNION { { ApiContentOf(od, <<>>, <<>>, <<>>) : od \in [1..n -> ViewRawEvents] } :
          n \in 0..MaxEvents }

\* options.filter.filterBy: each operator, the operator left out, a value in
\* another letter case, and the field name of the returned entries
ViewFilterOptions ==
  { [field |-> "name", value |-> Value_invoice, operator |-> "contains"],
    [field |-> "name", value |-> Value_invoice, operator |-> "startsWith"],
    [field |-> "name", value |-> Value_invoice, operator |-> "endsWith"],
    [field |-> "name", value |-> Value_INVOICE, operator |-> "equals"],
    [field |-> "name", value |-> Value_INVOICE, operator |-> ""],
    [field |-> "fileName", value |-> Value_invoice, operator |-> "contains"] }

\* options.filter.sortBy: a direction, or none, and a field
ViewSortOptions ==
  { [field |-> "name", direction |-> "asc"],
    [field |-> "name", direction |-> "desc"],
    [field |-> "name", direction |-> ""],
    [field |-> "fileSize", direction |-> "desc"] }

ViewOptionsSet ==
  { [pageSize |-> MaxPageSize, maxPages |-> 0, filterBy |-> f, sortBy |-> NoSort] :
      f \in ViewFilterOptions }
  \cup
  { [pageSize |-> MaxPageSize, maxPages |-> 0, filterBy |-> NoFilter, sortBy |-> sb] :
      sb \in ViewSortOptions }

InitView ==
  /\ api \in ViewApiContents
  /\ options \in ViewOptionsSet
  /\ pc = "fetching"
  /\ fetch = [r \in Roles |-> InitFetch]
  /\ allFiles = <<>>
  /\ oracle = NoOracle
  /\ fault = NoFault
  /\ result = <<>>
  /\ thrown = NoError
  /\ requests = [r \in Roles |-> <<>>]
  /\ op = NoOp

SpecView == InitView /\ [][Next]_vars

(***************************************************************************)
(* listPublic: the deploy events of all users are read in batches, each    *)
(* batch with the deletion events the API sends along; the files that are  *)
(* not deleted and whose access type is public are returned.  In a call of *)
(* listPublic api is the sequence of batches the API answers with, fetch   *)
(* holds skip, hasMore and deletedFileIds, and requests is the sequence of *)
(* the batch requests sent.                                                *)
(***************************************************************************)
\* const batchSize = 100
batchSize == 100

\* const limit = options?.limit || 1000
DefaultLimit == 1000

\* the number of batches the API holds before it answers with empty ones
MaxBatches == 3

Value_private == <<"p", "r", "i", "v", "a", "t", "e">>

Value_Public == <<"P", "u", "b", "l", "i", "c">>

MetaPublicInvoice ==
  <<LBrace, Pair("name", Name_Invoice),
    Pair("filecoinStorageInfo.pieceCID", <<"b", "1">>),
    Pair("accessType", Value_public), RBrace>>

MetaPublicReport ==
  <<LBrace, Pair("name", Name_report),
    Pair("filecoinStorageInfo.pieceCid", <<"b", "2">>),
    Pair("accessType", Value_public), RBrace>>

MetaPrivate ==
  <<LBrace, Pair("name", Name_report),
    Pair("filecoinStorageInfo.pieceCid", <<"b", "7">>),
    Pair("accessType", Value_private), RBrace>>

\* the access type in another letter case
MetaUpperPublic ==
  <<LBrace, Pair("name", Name_report),
    Pair("filecoinStorageInfo.pieceCid", <<"b", "8">>),
    Pair("accessType", Value_Public), RBrace>>

\* public, a locator at top level only
MetaPublicNoLocator ==
  <<LBrace, Pair("name", Name_Invoice), Pair("pieceCid", <<"b", "3">>),
    Pair("accessType", Value_public), RBrace>>

\* public, with a locator and the legacy encrypted-blob marker
MetaPublicLegacy ==
  <<LBrace, Pair("name", Name_Invoice),
    Pair("filecoinStorageInfo.pieceCID", <<"b", "4">>),
    Pair("encryptedData.ipfsHash", <<"Q", "m">>),
    Pair("accessType", Value_public), RBrace>>

\* The batches the API may answer with, as the identifier and metadata text of
\* each deploy event and the identifier of each deletion event.
PublicRawBatches ==
  { [deployeds |-> << <<Id_AbC123, MetaPublicInvoice>> >>, deleteds |-> <<>>],
    [deployeds |-> << <<Id_abc123, MetaPublicReport>> >>, deleteds |-> <<>>],
    [deployeds |-> << <<Id_d4, MetaPublicInvoice>>, <<Id_AbC123, MetaPrivate>> >>,
     deleteds |-> <<Id_AbC123>>],
    [deployeds |-> << <<Id_d4, MetaUpperPublic>> >>, deleteds |-> <<Id_abc123>>],
    [deployeds |-> << <<Id_d4, MetaMalformed>>, <<Id_e5, MetaPublicLegacy>> >>,
     deleteds |-> <<>>],
    [deployeds |-> <<>>, deleteds |-> <<Id_AbC123>>],
    [deployeds |-> << <<Id_e5, MetaPublicNoLocator>>, <<Id_d4, MetaPublicReport>> >>,
     deleteds |-> <<>>],
    [deployeds |-> << <<Id_AbC123, MetaPublicInvoice>>, <<Id_abc123, MetaPublicReport>> >>,
     deleteds |-> <<Id_e5>>],
    [deployeds |-> << <<Id_e5, MetaPublicInvoice>> >>, deleteds |-> <<>>] }

\* the n-th batch of the API
PublicBatchOf(n, raw) ==
  [permissionedFileDeployeds |-> StreamOf("public", n, raw.deployeds),
   permissionedFileDeleteds |->
     [i \in 1..Len(raw.deleteds) |-> [fileIdentifier |-> raw.deleteds[i]]]]

PublicApiContents ==
  UNION { { [n \in 1..len |-> PublicBatchOf(n, raws[n])] :
              raws \in [1..len -> PublicRawBatches] } :
          len \in 0..MaxBatches }

\* options.limit: not given (0), or a number of items
LimitOptions == {0, 50, 100, 150, 250}

ListPublicOptionsSet == [limit : LimitOptions]

LimitOf(o) == IF o.limit = 0 THEN DefaultLimit ELSE o.limit

Min(a, b) == IF a < b THEN a ELSE b

\* a batch request that always asks for a whole batch
CurrentBatch_Whole(limit, skip) == batchSize

\* const currentBatch = Math.min(batchSize, limit - skip)
CurrentBatch(limit, skip) == Min(batchSize, limit - skip)

EmptyBatch == [permissionedFileDeployeds |-> <<>>, permissionedFileDeleteds |-> <<>>]

\* what the API answers the n-th batch request of a call with
BatchAnswer(batches, n) == IF n <= Len(batches) THEN batches[n] ELSE EmptyBatch

\* deletedFileIds.add(deleted.fileIdentifier), for the deletion events of a batch
CollectDeleted(deletedFileIds, deleteds) ==
  deletedFileIds \cup { deleteds[i].fileIdentifier : i \in 1..Len(deleteds) }

\* the record listPublic stores under allFiles[file.fileIdentifier]; the key is
\* kept in the record as dataIdentifier
PublicFileEntry(file, metadata) ==
  [dataMetadata |-> metadata,
   dataContractAddress |-> file.fileContractAddress,
   owner |-> file.fileOwner,
   isAccessMinted |-> FALSE,
   cid |->
     OrElse(Get(metadata, "filecoinStorageInfo.pieceCid"),
       OrElse(Get(metadata, "filecoinStorageInfo.pieceCID"),
         OrElse(Get(metadata, "pieceCid"), Get(metadata, "cid")))),
   dataIdentifier |-> file.fileIdentifier]

\* one turn of the loop over the deploy events of a batch
ProcessDeployed(file, files, deletedFileIds) ==
  IF file.fileIdentifier \in deletedFileIds THEN files
  ELSE LET parsed == JSONparse(IF file.fileMetadata = <<>> THEN <<LBrace, RBrace>>
                               ELSE file.fileMetadata)
       IN IF ~parsed.ok THEN files
          ELSE IF \/ Truthy(Get(parsed.value, "filecoinStorageInfo.pieceCid"))
                  \/ Truthy(Get(parsed.value, "filecoinStorageInfo.pieceCID"))
               THEN SetFile(files, PublicFileEntry(file, parsed.value))
               ELSE files

RECURSIVE ProcessDeployeds(_, _, _, _)
ProcessDeployeds(events, i, files, deletedFileIds) ==
  IF i > Len(events) THEN files
  ELSE ProcessDeployeds(events, i + 1,
                        ProcessDeployed(events[i], files, deletedFileIds), deletedFileIds)

\* a final cleanup that removes nothing
Cleanup_None(files, deletedFileIds) == files

\* for (const deletedId of deletedFileIds) delete allFiles[deletedId]
Cleanup(files, deletedFileIds) ==
  LET IsKept(file) == file.dataIdentifier \notin deletedFileIds
  IN SelectSeq(files, IsKept)

\* a filter that keeps every file
IsPublicFile_Any(file) == TRUE

\* file.dataMetadata?.accessType === 'public'
IsPublicFile(file) == Get(file.dataMetadata, "accessType") = Str(Value_public)

ToPublicFileListEntry(file) ==
  LET metadata == file.dataMetadata
      size == Get(metadata, "size")
      fileSize == Get(metadata, "fileSize")
      nestedTimestamp == Get(metadata, "filecoinStorageInfo.uploadTimestamp")
      uploadTimestamp == Get(metadata, "uploadTimestamp")
  IN [fileName |-> OrElse(Get(metadata, "name"), Str(Name_Unknown)),
      pieceCid |->
        OrElse(Get(metadata, "filecoinStorageInfo.pieceCid"),
          OrElse(Get(metadata, "filecoinStorageInfo.pieceCID"),
            OrElse(Get(metadata, "pieceCid"), OrElse(file.cid, Str(<<>>))))),
      dataIdentifier |-> file.dataIdentifier,
      fileSize |->
        IF Truthy(size) THEN size
        ELSE IF Truthy(fileSize) THEN fileSize
        ELSE Undefined,
      isPublic |-> TRUE,
      encrypted |-> TRUE,
      uploadedAt |->
        IF Truthy(nestedTimestamp) THEN nestedTimestamp
        ELSE IF Truthy(uploadTimestamp) THEN uploadTimestamp
        ELSE Undefined,
      contractAddress |-> file.dataContractAddress,
      owner |-> file.owner,
      isAccessMinted |-> file.isAccessMinted,
      shares |-> <<>>,
      status |-> "active",
      metadata |-> metadata]

\* fileArray: the public files among the entries of allFiles, projected
PublicFileArray(files) ==
  LET publicFiles == SelectSeq(ObjectEntries(files), IsPublicFile)
  IN [i \in 1..Len(publicFiles) |-> ToPublicFileListEntry(publicFiles[i])]

InitPublicFetch == [skip |-> 0, hasMore |-> TRUE, deletedFileIds |-> {}]

InitPublic ==
  /\ api \in PublicApiContents
  /\ options \in ListPublicOptionsSet
  /\ pc = "fetching"
  /\ fetch = InitPublicFetch
  /\ allFiles = <<>>
  /\ oracle = NoOracle
  /\ fault = NoFault
  /\ result = <<>>
  /\ thrown = NoError
  /\ requests = <<>>
  /\ op = NoOp

\* while (hasMore && skip < limit)
PublicLoopRunning == fetch.hasMore /\ fetch.skip < LimitOf(options)

\* the batch request of the loop turn: skip=${skip}&first=${currentBatch}
BatchRequest == [skip |-> fetch.skip, first |-> CurrentBatch(LimitOf(options), fetch.skip)]

\* One turn of the loop of listPublic whose batch request succeeds.  A batch
\* without deploy events ends the loop before anything of it is read; after
\* another batch the loop ends when skip has reached the limit.  When the loop
\* ends listPublic runs, without awaiting, to its return.
PublicBatchOk ==
  LET data == BatchAnswer(api, Len(requests) + 1)
      deletedFileIds == CollectDeleted(fetch.deletedFileIds, data.permissionedFileDeleteds)
      files == ProcessDeployeds(data.permissionedFileDeployeds, 1, allFiles, deletedFileIds)
      skip == fetch.skip + BatchRequest.first
  IN /\ pc = "fetching"
     /\ PublicLoopRunning
     /\ requests' = Append(requests, BatchRequest)
     /\ IF Len(data.permissionedFileDeployeds) = 0
        THEN /\ fetch' = [fetch EXCEPT !.hasMore = FALSE]
             /\ allFiles' = Cleanup(allFiles, fetch.deletedFileIds)
             /\ result' = PublicFileArray(allFiles')
             /\ pc' = "returned"
        ELSE /\ fetch' = [skip |-> skip, hasMore |-> TRUE, deletedFileIds |-> deletedFileIds]
             /\ IF skip < LimitOf(options)
                THEN /\ allFiles' = files
                     /\ UNCHANGED <<result, pc>>
                ELSE /\ allFiles' = Cleanup(files, deletedFileIds)
                     /\ result' = PublicFileArray(allFiles')
                     /\ pc' = "returned"
     /\ UNCHANGED <<api, options, oracle, fault, thrown, op>>

\* a batch failure that fails the call
PublicBatchFail_Fatal ==
  /\ pc = "fetching"
  /\ PublicLoopRunning
  /\ requests' = Append(requests, BatchRequest)
  /\ fault' = [at |-> "batch", role |-> "", status |-> 0, page |-> Len(requests)]
  /\ thrown' = PageRejectionError
  /\ pc' = "threw"
  /\ UNCHANGED <<api, options, fetch, allFiles, oracle, result, op>>

\* A batch request that fails (a non-2xx answer, a rejected fetch, a body that
\* is not JSON): the catch in the loop breaks out of it, and listPublic runs to
\* its return with what it has.
PublicBatchFail ==
  /\ pc = "fetching"
  /\ PublicLoopRunning
  /\ requests' = Append(requests, BatchRequest)
  /\ \/ \E status \in HttpErrorStatuses :
          fault' = [at |-> "batch", role |-> "", status |-> status, page |-> Len(requests)]
     \/ fault' = [at |-> "batch", role |-> "", status |-> 0, page |-> Len(requests)]
  /\ allFiles' = Cleanup(allFiles, fetch.deletedFileIds)
  /\ result' = PublicFileArray(allFiles')
  /\ pc' = "returned"
  /\ UNCHANGED <<api, options, fetch, oracle, thrown, op>>

NextPublic ==
  \/ PublicBatchOk
  \/ PublicBatchFail

SpecPublic == InitPublic /\ [][NextPublic]_vars

(***************************************************************************)
(* What the claims speak of, read off the state: the event arrays the two  *)
(* fetches returned, the events of the API, and the entries returned.      *)
(***************************************************************************)
\* the array of one event group, as fetched
GroupEvents(g) == fetch[Groups[g].role].allData[Groups[g].kind]

\* the events of the four fetched groups in processing order
AllFetched == GroupEvents(1) \o GroupEvents(2) \o GroupEvents(3) \o GroupEvents(4)

\* the events the API holds, whether fetched or not
AllOfApi ==
  api["owner"].permissionedFileDeployeds \o api["owner"].permissionedFileAccessMinteds
    \o api["minter"].permissionedFileDeployeds \o api["minter"].permissionedFileAccessMinteds

UpperLetters == {UpperAlphabet[i] : i \in 1..Len(UpperAlphabet)}

IsLowerCase(s) == \A i \in 1..Len(s) : s[i] \notin UpperLetters

\* the event's metadata is valid JSON, has a piece locator in its storage-info
\* object and has no legacy encrypted-blob marker
IsCompleteEvent(e) ==
  LET doc == JSONparse(e.fileMetadata) IN
  /\ doc.ok
  /\ \/ Truthy(Get(doc.value, "filecoinStorageInfo.pieceCID"))
     \/ Truthy(Get(doc.value, "filecoinStorageInfo.pieceCid"))
  /\ ~Truthy(Get(doc.value, "encryptedData.ipfsHash"))

\* the event's metadata satisfies the filterBy of the call, if one is given
PassesFilter(e) ==
  \/ options.filterBy = NoFilter
  \/ matchesFilter([dataMetadata |-> extractMetadata(JSONparse(e.fileMetadata).value)],
                   options.filterBy)

SameIdentifier(e, id) == toLowerCase(e.fileIdentifier) = toLowerCase(id)

\* the groups in which an identifier occurs
GroupsOf(id) ==
  { g \in 1..4 : \E i \in 1..Len(GroupEvents(g)) : SameIdentifier(GroupEvents(g)[i], id) }

\* the entry was built from this event
BuiltFrom(entry, e) ==
  /\ entry.contractAddress = e.fileContractAddress
  /\ entry.owner = e.fileOwner
  /\ entry.metadata = JSONparse(e.fileMetadata).value

ResultIds == {result[i].dataIdentifier : i \in 1..Len(result)}

\* C1: the array list returns holds at most one entry per file identifier
\* compared case-insensitively, and every returned dataIdentifier is in lower
\* case: events whose identifiers differ only in letter case reconcile to one
\* entry keyed by the lower-case form.
C1_OneEntryPerIdentifier ==
  pc = "returned" =>
    /\ \A i, j \in 1..Len(result) :
         toLowerCase(result[i].dataIdentifier) = toLowerCase(result[j].dataIdentifier)
           => i = j
    /\ \A i \in 1..Len(result) : IsLowerCase(result[i].dataIdentifier)
    /\ \A k \in 1..Len(AllFetched) :
         Cardinality({i \in 1..Len(result) :
                        SameIdentifier(AllFetched[k], result[i].dataIdentifier)}) <= 1

\* two owner-deployed events "AbC123" and "abc123", both complete, and the one
\* entry "abc123" returned for them
C1_Witness ==
  /\ pc = "returned"
  /\ Len(GroupEvents(1)) = 2
  /\ GroupEvents(1)[1].fileIdentifier = Id_AbC123
  /\ GroupEvents(1)[2].fileIdentifier = Id_abc123
  /\ IsCompleteEvent(GroupEvents(1)[1])
  /\ IsCompleteEvent(GroupEvents(1)[2])
  /\ Len(result) = 1
  /\ result[1].dataIdentifier = Id_abc123

\* the first event of the identifier, in processing order, that satisfies Passes
FirstEvent(id, Passes(_)) ==
  LET k == CHOOSE n \in 1..Len(AllFetched) :
             /\ SameIdentifier(AllFetched[n], id) /\ Passes(AllFetched[n])
             /\ \A m \in 1..(n - 1) :
                  ~(SameIdentifier(AllFetched[m], id) /\ Passes(AllFetched[m]))
  IN AllFetched[k]

HasEvent(id, Passes(_)) ==
  \E n \in 1..Len(AllFetched) : SameIdentifier(AllFetched[n], id) /\ Passes(AllFetched[n])

PassesBoth(e) == IsCompleteEvent(e) /\ PassesFilter(e)

\* C2 as stated: for an identifier that occurs in more than one event group, with
\* or without a filterBy, the entry returned carries the contract address, owner
\* and metadata of the first event, in processing order, that passed the
\* metadata-completeness check.
C2_FirstCompleteWins ==
  pc = "returned" =>
    \A i \in 1..Len(result) :
      Cardinality(GroupsOf(result[i].dataIdentifier)) > 1 =>
        /\ HasEvent(result[i].dataIdentifier, IsCompleteEvent)
        /\ BuiltFrom(result[i], FirstEvent(result[i].dataIdentifier, IsCompleteEvent))

\* C2 amended: the entry carries the contract address, owner and metadata of the
\* first event, in processing order, that passed the metadata-completeness check
\* and, when a filterBy is given, the filter.
C2_FirstCompleteMatchingWins ==
  pc = "returned" =>
    \A i \in 1..Len(result) :
      Cardinality(GroupsOf(result[i].dataIdentifier)) > 1 =>
        /\ HasEvent(result[i].dataIdentifier, PassesBoth)
        /\ BuiltFrom(result[i], FirstEvent(result[i].dataIdentifier, PassesBoth))

\* with a filterBy: a complete owner-deployed event that does not match, and the
\* entry built from a later group's event of the same identifier
C2_Witness ==
  /\ pc = "returned"
  /\ options.filterBy # NoFilter
  /\ Len(result) = 1
  /\ Len(GroupEvents(1)) = 1
  /\ SameIdentifier(GroupEvents(1)[1], result[1].dataIdentifier)
  /\ IsCompleteEvent(GroupEvents(1)[1])
  /\ ~BuiltFrom(result[1], GroupEvents(1)[1])
  /\ BuiltFrom(result[1], FirstEvent(result[1].dataIdentifier, PassesBoth))

\* C3: when the deletion-oracle request succeeds, no entry list returns has an
\* identifier that the oracle's answer maps to true.
C3_NoDeletedEntry ==
  (pc = "returned" /\ oracle.status = "ok") =>
    \A i \in 1..Len(result) :
      ~(/\ result[i].dataIdentifier \in DOMAIN oracle.deletedFiles
        /\ oracle.deletedFiles[result[i].dataIdentifier])

\* two records reconciled, one of them taken from an access-minted group and
\* reported deleted, the other returned
C3_Witness ==
  /\ pc = "returned"
  /\ oracle.status = "ok"
  /\ Len(allFiles) = 2
  /\ Len(result) = 1
  /\ \E i \in 1..2 :
       /\ allFiles[i].dataIdentifier \in DOMAIN oracle.deletedFiles
       /\ oracle.deletedFiles[allFiles[i].dataIdentifier]
       /\ allFiles[i].dataContractAddress[3] = "permissionedFileAccessMinteds"

\* C4: when the deletion-oracle request fails, list does not fail: it returns
\* every record that passed the metadata-completeness and filter checks.
C4_OracleFailureIncludesAll ==
  oracle.status = "failed" =>
    /\ pc = "returned"
    /\ thrown = NoError
    /\ ResultIds =
         { toLowerCase(AllFetched[n].fileIdentifier) :
             n \in { m \in 1..Len(AllFetched) : PassesBoth(AllFetched[m]) } }
    /\ \A i \in 1..Len(result) :
         BuiltFrom(result[i], FirstEvent(result[i].dataIdentifier, PassesBoth))

\* the oracle request answered with a non-2xx status, and two entries returned
C4_Witness ==
  /\ oracle.status = "failed"
  /\ fault.at = "oracle"
  /\ fault.status = 500
  /\ pc = "returned"
  /\ Len(result) = 2

\* the oracle's answer reports the identifier deleted
ReportedDeleted(id) ==
  /\ oracle.status = "ok"
  /\ id \in DOMAIN oracle.deletedFiles
  /\ oracle.deletedFiles[id]

\* C5: with the default maxPages and no filter, list returns an entry for every
\* file identifier that has an event with complete metadata anywhere in the
\* wallet's owner or minter streams, deployed or access-minted and on any page,
\* and that is not reported deleted.
C5_NoFileLostByPagination ==
  (pc = "returned" /\ options.maxPages = 0 /\ options.filterBy = NoFilter) =>
    \A n \in 1..Len(AllOfApi) :
      IsCompleteEvent(AllOfApi[n]) =>
        \/ ReportedDeleted(toLowerCase(AllOfApi[n].fileIdentifier))
        \/ toLowerCase(AllOfApi[n].fileIdentifier) \in ResultIds

\* C6: list never returns an entry built from an event whose parsed metadata has
\* no piece locator in its storage-info object or has the legacy encrypted-blob
\* marker, whichever group the event is in.
C6_OnlyCompleteMetadata ==
  pc = "returned" =>
    \A i \in 1..Len(result) :
      /\ \/ Truthy(Get(result[i].metadata, "filecoinStorageInfo.pieceCID"))
         \/ Truthy(Get(result[i].metadata, "filecoinStorageInfo.pieceCid"))
      /\ ~Truthy(Get(result[i].metadata, "encryptedData.ipfsHash"))
      /\ \A n \in 1..Len(AllFetched) :
           result[i].contractAddress = AllFetched[n].fileContractAddress
             => IsCompleteEvent(AllFetched[n])

\* an event with the legacy marker comes first for an identifier, and the entry
\* returned for the identifier is built from a later, complete event
C6_Witness ==
  /\ pc = "returned"
  /\ Len(result) = 1
  /\ \E n \in 1..Len(AllFetched) :
       /\ AllFetched[n].fileMetadata = MetaLegacy
       /\ SameIdentifier(AllFetched[n], result[1].dataIdentifier)
       /\ \E m \in (n + 1)..Len(AllFetched) : BuiltFrom(result[1], AllFetched[m])

\* the identifier occurs in an access-minted array of the owner or minter fetch
IsMinted(id) ==
  \E g \in {2, 4} : \E n \in 1..Len(GroupEvents(g)) :
    toLowerCase(GroupEvents(g)[n].fileIdentifier) = id

\* C7: for every entry list returns, isAccessMinted is true if and only if the
\* entry's identifier occurs in the access-minted array of the owner fetch or of
\* the minter fetch.
C7_AccessMintedFlag ==
  pc = "returned" =>
    \A i \in 1..Len(result) :
      result[i].isAccessMinted <=> IsMinted(result[i].dataIdentifier)

\* an entry taken from the owner's deployed group whose identifier occurs, in
\* another letter case, in the minter's access-minted array
C7_Witness ==
  /\ pc = "returned"
  /\ Len(result) = 1
  /\ result[1].isAccessMinted
  /\ result[1].contractAddress = ContractAt("owner", "permissionedFileDeployeds", 1)
  /\ Len(GroupEvents(4)) = 1
  /\ GroupEvents(1)[1].fileIdentifier # GroupEvents(4)[1].fileIdentifier

\* C8: if a page request of the owner fetch or of the minter fetch fails, list
\* throws and returns no array, whatever pages were fetched before.
C8_PageFailureIsFatal ==
  fault.at = "page" =>
    /\ pc = "threw"
    /\ thrown.name = "SDKError"
    /\ result = <<>>

\* the second page request of a role fails after its first page and a page of
\* the other role brought events
C8_Witness ==
  /\ fault.at = "page"
  /\ pc = "threw"
  /\ fault.page = 1
  /\ \A r \in Roles : Len(fetch[r].allData.permissionedFileDeployeds) > 0

\* C9: when list fails because a page request was answered with a non-2xx
\* status, the error thrown is an SDKError of category NETWORK.
C9_PageFailureIsNetworkError ==
  (fault.at = "page" /\ fault.status # 0) =>
    /\ thrown.name = "SDKError"
    /\ thrown.category = "NETWORK"

\* C10: an event whose fileMetadata is not valid JSON does not abort the call:
\* once both fetches have succeeded list goes on to return an array.
C10_MalformedMetadataIsSkipped ==
  /\ fault.at # "parse"
  /\ pc = "threw" => fault.at = "page"

\* the number of deployed pages of exactly pageSize items the API answers a role
\* with before the page of fewer items
FullPages(r) == Len(api[r].permissionedFileDeployeds) \div PageSizeOf(options)

\* C17: for each role, with page size P and no maxPages, the fetcher sends its
\* page requests with skip 0, P, 2P, ... in that order and one at a time (at
\* most one request is not yet answered with a page, and that one failed); it
\* never sends more than k+1 requests when the API answers with k deployed pages
\* of exactly P items and then a shorter one, and once both fetches are done
\* without a failure it has sent exactly k+1.
C17_SequentialPageRequests ==
  options.maxPages = 0 =>
    \A r \in Roles :
      /\ \A n \in 1..Len(requests[r]) :
           /\ requests[r][n].skip = (n - 1) * PageSizeOf(options)
           /\ requests[r][n].first = PageSizeOf(options)
      /\ Len(requests[r]) <= fetch[r].page + 1
      /\ Len(requests[r]) = fetch[r].page + 1 => fault.at = "page" /\ fault.role = r
      /\ Len(requests[r]) <= FullPages(r) + 1
      /\ (pc # "fetching" /\ fault.at # "page") => Len(requests[r]) = FullPages(r) + 1

\* two full pages and an empty one: three requests, and list returned
C17_Witness ==
  /\ pc = "returned"
  /\ options.maxPages = 0
  /\ FullPages("owner") = 2
  /\ Len(requests["owner"]) = 3
  /\ requests["owner"][3].skip = 2 * PageSizeOf(options)

\* C18: with a caller-supplied maxPages = m (m >= 1) list sends at most m page
\* requests per role, even when every page the API answers with is full.
C18_AtMostMaxPagesRequests ==
  options.maxPages >= 1 => \A r \in Roles : Len(requests[r]) <= options.maxPages

\* maxPages = 1, the only page fetched for the minter was full, the API holds
\* more, and list returned
C18_Witness ==
  /\ pc = "returned"
  /\ options.maxPages = 1
  /\ Len(requests["minter"]) = 1
  /\ Len(fetch["minter"].allData.permissionedFileDeployeds) = PageSizeOf(options)
  /\ Len(api["minter"].permissionedFileDeployeds) > PageSizeOf(options)

\* the value an entry's record has for a field of its extracted metadata
EntryField(entry, field) == FieldValue(extractMetadata(entry.metadata), field)

\* the operator of a filterBy holds of a field value and a filter value, both
\* in lower case; an operator left out is equals
OperatorHolds(operator, v, w) ==
  \/ operator = "contains" /\ \E i \in 0..(Len(v) - Len(w)) : SubSeq(v, i + 1, i + Len(w)) = w
  \/ operator = "startsWith" /\ Len(w) <= Len(v) /\ SubSeq(v, 1, Len(w)) = w
  \/ operator = "endsWith" /\ Len(w) <= Len(v) /\ SubSeq(v, Len(v) - Len(w) + 1, Len(v)) = w
  \/ operator \in {"equals", ""} /\ v = w

\* C11: with a filterBy {field, value, operator} every entry list returns comes
\* from a record whose extracted metadata has the field defined and whose
\* lower-cased field value satisfies the operator (equals when it is left out)
\* against the lower-cased filter value; with field "fileName", value "invoice"
\* and operator contains, only records whose name contains "invoice" in any
\* letter case appear.
C11_FilterKeepsMatchingOnly ==
  (pc = "returned" /\ options.filterBy # NoFilter) =>
    \A i \in 1..Len(result) :
      /\ EntryField(result[i], options.filterBy.field) # Undefined
      /\ OperatorHolds(options.filterBy.operator,
                       toLowerCase(EntryField(result[i], options.filterBy.field).s),
                       toLowerCase(options.filterBy.value))
      /\ options.filterBy.field = "fileName" =>
           /\ EntryField(result[i], "name") # Undefined
           /\ OperatorHolds("contains", toLowerCase(EntryField(result[i], "name").s),
                            toLowerCase(options.filterBy.value))

\* the filter value is in upper case and no operator is given; of two events
\* fetched, the one named "Invoice" is returned and the one named "myInvoice"
\* is not
C11_Witness ==
  /\ pc = "returned"
  /\ options.filterBy = [field |-> "name", value |-> Value_INVOICE, operator |-> ""]
  /\ Len(fetch["owner"].allData.permissionedFileDeployeds) = 2
  /\ \E n \in 1..2 :
       fetch["owner"].allData.permissionedFileDeployeds[n] .fileMetadata = MetaSmall
  /\ Len(result) = 1
  /\ result[1].fileName = Str(Name_Invoice)

\* C12: with a sortBy on any field, the entries whose value for that field is
\* missing come after all entries that have a value, for direction asc as
\* for direction desc.
C12_MissingValuesSortLast ==
  (pc = "returned" /\ options.sortBy # NoSort) =>
    \A i, j \in 1..Len(result) :
      (i < j /\ EntryField(result[i], options.sortBy.field) = Undefined)
        => EntryField(result[j], options.sortBy.field) = Undefined

\* C13: with sortBy {field: "fileSize", direction: "desc"} the entries list
\* returns are in non-increasing order of fileSize, the entries of undefined
\* size last.
C13_SortedByDescendingSize ==
  (pc = "returned" /\ options.sortBy = [field |-> "fileSize", direction |-> "desc"]) =>
    \A i, j \in 1..Len(result) :
      i < j =>
        /\ result[i].fileSize = Undefined => result[j].fileSize = Undefined
        /\ (result[i].fileSize # Undefined /\ result[j].fileSize # Undefined)
             => StringToNumber(result[i].fileSize.s) >= StringToNumber(result[j].fileSize.s)

(***************************************************************************)
(* What the claims about listPublic speak of.                              *)
(***************************************************************************)
\* the number of batch requests the API answered with a batch
Answered == IF fault.at = "batch" THEN Len(requests) - 1 ELSE Len(requests)

\* the answered batches that hold at least one deploy event
BatchesRead ==
  { n \in 1..Answered : Len(BatchAnswer(api, n).permissionedFileDeployeds) > 0 }

\* the deploy events of those batches, as batch number and place in the batch
DeploysRead ==
  UNION { { <<n, i>> : i \in 1..Len(BatchAnswer(api, n).permissionedFileDeployeds) } :
          n \in BatchesRead }

DeployAt(p) == BatchAnswer(api, p[1]).permissionedFileDeployeds[p[2]]

\* the identifiers of the deletion events of a batch
DeletedIn(n) ==
  { BatchAnswer(api, n).permissionedFileDeleteds[i].fileIdentifier :
      i \in 1..Len(BatchAnswer(api, n).permissionedFileDeleteds) }

DeletedRead == UNION { DeletedIn(n) : n \in BatchesRead }

\* the metadata of the event is valid JSON with a piece locator in its
\* storage-info object
IsStorable(e) ==
  LET doc == JSONparse(e.fileMetadata) IN
  /\ doc.ok
  /\ \/ Truthy(Get(doc.value, "filecoinStorageInfo.pieceCid"))
     \/ Truthy(Get(doc.value, "filecoinStorageInfo.pieceCID"))

IsPublicEvent(e) ==
  LET doc == JSONparse(e.fileMetadata) IN
  doc.ok /\ Get(doc.value, "accessType") = Str(Value_public)

PublicResultIds == {result[i].dataIdentifier : i \in 1..Len(result)}

\* C14: listPublic never returns an entry whose underlying metadata accessType
\* is not exactly "public": every returned entry was built from a deploy event
\* read whose metadata has accessType "public".
C14_OnlyPublicEntries ==
  pc = "returned" =>
    \A i \in 1..Len(result) :
      \E p \in DeploysRead :
        /\ DeployAt(p).fileIdentifier = result[i].dataIdentifier
        /\ DeployAt(p).fileContractAddress = result[i].contractAddress
        /\ result[i].metadata = JSONparse(DeployAt(p).fileMetadata).value
        /\ IsPublicEvent(DeployAt(p))

\* a file is returned, and a deploy event with a locator whose access type is
\* not "public" (private, or "Public") and whose file is not deleted was read
\* and is not returned
C14_Witness ==
  /\ pc = "returned"
  /\ Len(result) >= 1
  /\ \E p \in DeploysRead :
       /\ IsStorable(DeployAt(p))
       /\ Get(JSONparse(DeployAt(p).fileMetadata).value, "accessType") = Str(Value_Public)
       /\ DeployAt(p).fileIdentifier \notin DeletedRead
       /\ DeployAt(p).fileIdentifier \notin PublicResultIds

\* C15: listPublic returns no entry whose identifier equals the identifier of a
\* deletion event of a batch it was answered with that holds at least one
\* deploy event, whether the deletion event came in an earlier batch, the same
\* batch or a later batch than the deploy event.
C15_NoDeletedPublicEntry ==
  pc = "returned" =>
    \A i \in 1..Len(result) : \A n \in BatchesRead :
      result[i].dataIdentifier \notin DeletedIn(n)

\* the first batch deploys a public file, the second batch deletes it and
\* deploys another public file; the other file is returned
C15_Witness ==
  /\ pc = "returned"
  /\ {1, 2} \subseteq BatchesRead
  /\ DeployAt(<<1, 1>>).fileIdentifier = Id_AbC123
  /\ IsStorable(DeployAt(<<1, 1>>)) /\ IsPublicEvent(DeployAt(<<1, 1>>))
  /\ Id_AbC123 \in DeletedIn(2)
  /\ Id_AbC123 \notin DeletedIn(1)
  /\ Len(result) >= 1

\* C16: listPublic treats file identifiers case-insensitively: deploy events
\* whose identifiers differ only in letter case yield a single returned entry,
\* and a deletion event excludes a deploy event whose identifier differs from
\* it only in letter case.
C16_PublicIdentifiersIgnoreCase ==
  pc = "returned" =>
    /\ \A i, j \in 1..Len(result) :
         toLowerCase(result[i].dataIdentifier) = toLowerCase(result[j].dataIdentifier)
           => i = j
    /\ \A i \in 1..Len(result) : \A d \in DeletedRead :
         toLowerCase(d) # toLowerCase(result[i].dataIdentifier)

RECURSIVE SumOfFirst(_)
\* the sum of first over the first n batch requests
SumOfFirst(n) == IF n = 0 THEN 0 ELSE SumOfFirst(n - 1) + requests[n].first

\* every batch request asks for min(100, L - skip) items from the skip that is
\* the sum of what the requests before asked for, none is sent once skip >= L,
\* and together they ask for no more than L items
RequestsWithin(L) ==
  /\ \A n \in 1..Len(requests) :
       /\ requests[n].skip = SumOfFirst(n - 1)
       /\ requests[n].first = (IF 100 < L - requests[n].skip THEN 100
                               ELSE L - requests[n].skip)
       /\ requests[n].skip < L
  /\ SumOfFirst(Len(requests)) <= L

StorableFor(id) ==
  { p \in DeploysRead : DeployAt(p).fileIdentifier = id /\ IsStorable(DeployAt(p)) }

\* the last of them
LastStorableFor(id) ==
  CHOOSE p \in StorableFor(id) :
    \A q \in StorableFor(id) : q[1] < p[1] \/ (q[1] = p[1] /\ q[2] <= p[2])

\* the identifiers whose file is public and not deleted by what was read: no
\* deletion event for it, and the last storable deploy event for it is public
PublicNotDeleted ==
  { id \in { DeployAt(p).fileIdentifier : p \in DeploysRead } :
      /\ id \notin DeletedRead
      /\ StorableFor(id) # {}
      /\ IsPublicEvent(DeployAt(LastStorableFor(id))) }

\* C20: when a batch request of listPublic fails, listPublic sends no further
\* request, does not throw, and returns the public, non-deleted entries of the
\* batches it read before the failure.
C20_BatchFailureReturnsAccumulated ==
  fault.at = "batch" =>
    /\ pc = "returned"
    /\ thrown = NoError
    /\ Len(requests) = fault.page + 1
    /\ PublicResultIds = PublicNotDeleted
    /\ \A i, j \in 1..Len(result) :
         result[i].dataIdentifier = result[j].dataIdentifier => i = j
    /\ \A i \in 1..Len(result) :
         /\ result[i].contractAddress
              = DeployAt(LastStorableFor(result[i].dataIdentifier)).fileContractAddress
         /\ result[i].metadata
              = JSONparse(DeployAt(LastStorableFor(result[i].dataIdentifier)).fileMetadata).value

\* the third batch request fails; of the two batches read, the second deletes
\* the file of the first and deploys a public file, which is returned
C20_Witness ==
  /\ fault.at = "batch"
  /\ fault.page = 2
  /\ Id_AbC123 \in DeletedIn(2)
  /\ DeployAt(<<1, 1>>).fileIdentifier = Id_AbC123
  /\ IsPublicEvent(DeployAt(<<1, 1>>))
  /\ Len(result) = 1
  /\ result[1].dataIdentifier = Id_d4

(***************************************************************************)
(* The deletion oracle within one list call.                               *)
(***************************************************************************)
\* every page request the role sent has been answered and its loop has ended
FetchComplete(r) == ~LoopRunning(r) /\ Len(requests[r]) = fetch[r].page

\* C26: the deletion-oracle request is issued only after the last page
\* response of both the owner fetch and the minter fetch has been received,
\* and it is never issued when either fetch failed.
C26_OracleAfterBothFetches ==
  /\ oracle.sent > 0 =>
       /\ \A r \in Roles : FetchComplete(r)
       /\ fault.at # "page"
  /\ fault.at = "page" => oracle.sent = 0 /\ oracle.status = "none"

\* the oracle has been asked after the owner fetch and the minter fetch each
\* took two pages, the first of them holding an event
C26_Witness ==
  /\ oracle.status = "asked"
  /\ oracle.sent = 1
  /\ \A r \in Roles :
       /\ fetch[r].page = 2
       /\ Len(fetch[r].allData.permissionedFileDeployeds) = 1

\* the lower-cased identifiers of the fetched events that passed the
\* metadata-completeness check and the filter
CandidateIds ==
  { toLowerCase(AllFetched[k].fileIdentifier) :
      k \in {n \in 1..Len(AllFetched) : PassesBoth(AllFetched[n])} }

\* list has run its processing loops without throwing
Reconciled == pc \in {"awaitOracle", "returned"}

\* C27: a list call issues at most one deletion-oracle request; it is issued
\* exactly when the candidate map is not empty, and its batch is exactly the
\* set of lower-cased identifiers that passed the metadata-completeness and
\* filter checks, each named once.
C27_OneOracleRequestForAllCandidates ==
  /\ oracle.sent <= 1
  /\ (oracle.sent = 1) <=> (Reconciled /\ CandidateIds # {})
  /\ (oracle.status # "none") <=> (oracle.sent = 1)
  /\ oracle.sent = 1 =>
       /\ {oracle.request[i] : i \in 1..Len(oracle.request)} = CandidateIds
       /\ Len(oracle.request) = Cardinality(CandidateIds)

\* a call that returned after one request that named two identifiers
C27_Witness ==
  /\ pc = "returned"
  /\ oracle.sent = 1
  /\ Len(oracle.request) = 2
  /\ Cardinality(CandidateIds) = 2

\* a call that returned after one request that left out a fetched event
C27_WitnessOneOfTwo ==
  /\ pc = "returned"
  /\ oracle.sent = 1
  /\ \E k \in 1..Len(AllFetched) : ~PassesBoth(AllFetched[k])

\* a call that returned without asking the oracle, having fetched events of
\* which none passed
C27_WitnessNoRequest ==
  /\ pc = "returned"
  /\ oracle.sent = 0
  /\ Len(AllFetched) > 0

(***************************************************************************)
(* The two fetches of one list call against a fetch that runs alone.       *)
(***************************************************************************)
\* the fetch of a role run by itself from the state f to its end
RECURSIVE FetchAlone(_, _)
FetchAlone(r, f) ==
  IF f.hasMore /\ BelowMaxPages(f.page, options)
  THEN LET pageSize == PageSizeOf(options)
           pageData == PageOf(api[r], f.skip, pageSize)
       IN FetchAlone(r,
            [allData |->
               [permissionedFileDeployeds |->
                  f.allData.permissionedFileDeployeds \o pageData.permissionedFileDeployeds,
                permissionedFileAccessMinteds |->
                  f.allData.permissionedFileAccessMinteds
                    \o pageData.permissionedFileAccessMinteds],
             skip |-> f.skip + pageSize,
             page |-> f.page + 1,
             hasMore |-> HasMore(pageData, pageSize)])
  ELSE f

\* what list returns for the events of the two fetches run one after the
\* other, given what the oracle answered
ResultOfFetchesAlone ==
  LET processed == ProcessAllFiles(FetchAlone("owner", InitFetch).allData,
                                   FetchAlone("minter", InitFetch).allData,
                                   options.filterBy)
  IN CASE oracle.status = "ok" ->
            FileArray(FilterDeleted(processed.allFiles, oracle.deletedFiles), options.sortBy)
       [] oracle.status = "failed" ->
            FileArray(IncludeAll(processed.allFiles), options.sortBy)
       [] OTHER -> <<>>

\* C22: the array list returns is the same for every interleaving of the page
\* requests and responses of the owner fetch and the minter fetch: each fetch
\* collects what it collects when run alone, and the array returned is the one
\* the call returns for the fetches run one after the other, entry by entry
\* and in the same order.
C22_ResultSameForEveryInterleaving ==
  /\ \A r \in Roles :
       ~LoopRunning(r) /\ ~(fault.at = "page" /\ fault.role = r)
         => fetch[r] = FetchAlone(r, InitFetch)
  /\ pc = "returned" => result = ResultOfFetchesAlone

\* both fetches took two pages, the file of the owner fetch is the file of the
\* minter fetch, and the one entry returned is built from the owner's event
C22_Witness ==
  /\ pc = "returned"
  /\ \A r \in Roles : fetch[r].page = 2
  /\ Len(result) = 1
  /\ GroupsOf(result[1].dataIdentifier) = {1, 3}
  /\ BuiltFrom(result[1], GroupEvents(1)[1])

(***************************************************************************)
(* listPublic: duplicate deploy events, legacy documents, and deletion     *)
(* events of a batch without deploy events.                                *)
(***************************************************************************)
HasLegacyMarker(metadata) == Truthy(Get(metadata, "encryptedData.ipfsHash"))

HasStorageLocator(metadata) ==
  \/ Truthy(Get(metadata, "filecoinStorageInfo.pieceCid"))
  \/ Truthy(Get(metadata, "filecoinStorageInfo.pieceCID"))

\* p is read before q
ReadBefore(p, q) == p[1] < q[1] \/ (p[1] = q[1] /\ p[2] < q[2])

\* the deploy events read that carry the identifier and whose metadata is
\* complete: a locator in the storage-info object and no legacy marker
CompleteFor(id) ==
  { p \in StorableFor(id) : ~HasLegacyMarker(JSONparse(DeployAt(p).fileMetadata).value) }

FirstCompleteFor(id) ==
  CHOOSE p \in CompleteFor(id) : \A q \in CompleteFor(id) : q = p \/ ReadBefore(p, q)

\* C28: in listPublic, when several deploy events with complete metadata
\* carry the same identifier, in one batch or across batches, the returned
\* entry carries the contract address, owner and metadata of the first of
\* them; later duplicate events are skipped.
C28_FirstPublicDeployWins ==
  pc = "returned" =>
    \A i \in 1..Len(result) :
      LET id == result[i].dataIdentifier IN
      Cardinality(CompleteFor(id)) > 1 /\ StorableFor(id) = CompleteFor(id) =>
        /\ result[i].contractAddress = DeployAt(FirstCompleteFor(id)).fileContractAddress
        /\ result[i].owner = DeployAt(FirstCompleteFor(id)).fileOwner
        /\ result[i].metadata = JSONparse(DeployAt(FirstCompleteFor(id)).fileMetadata).value

\* C29: listPublic never returns an entry built from a deploy event whose
\* parsed metadata has no piece locator in its storage-info object or holds
\* the legacy encrypted-blob marker encryptedData.ipfsHash.
C29_NoPublicEntryFromIncompleteMetadata ==
  pc = "returned" =>
    \A i \in 1..Len(result) :
      /\ HasStorageLocator(result[i].metadata)
      /\ ~HasLegacyMarker(result[i].metadata)

\* C30: in listPublic, the deletion events of a batch that has no deploy
\* event are applied as well: no returned entry has the identifier of a
\* deletion event of any batch the call was answered with.
C30_DeletionsOfEmptyBatchApplied ==
  pc = "returned" =>
    \A i \in 1..Len(result) : \A n \in 1..Answered :
      result[i].dataIdentifier \notin DeletedIn(n)

(***************************************************************************)
(* delete and share: the operations that look a file up with list and then *)
(* send a transaction to the permissions registry.                         *)
(***************************************************************************)
\* what createValidationError(message) makes
createValidationError(message) ==
  [name |-> "SDKError", category |-> "VALIDATION", message |-> message]

\* what createContractError(message) makes
createContractError(message) ==
  [name |-> "SDKError", category |-> "CONTRACT", message |-> message]

Msg_InvalidPieceCid == <<"I", "n", "v", "a", "l", "i", "d", " ", "p", "i", "e", "c", "e", " ", "C", "I", "D">>

Msg_InvalidPieceCidFormat == <<"I", "n", "v", "a", "l", "i", "d", " ", "p", "i", "e", "c", "e", " ", "C", "I", "D", " ", "f", "o", "r", "m", "a", "t">>

Msg_InvalidAddress == <<"I", "n", "v", "a", "l", "i", "d", " ", "a", "d", "d", "r", "e", "s", "s">>

Msg_InvalidAddressFormat == <<"I", "n", "v", "a", "l", "i", "d", " ", "E", "t", "h", "e", "r", "e", "u", "m", " ", "a", "d", "d", "r", "e", "s", "s", " ", "f", "o", "r", "m", "a", "t">>

Msg_PrivateKeyRequired == <<"P", "r", "i", "v", "a", "t", "e", " ", "k", "e", "y", " ", "r", "e", "q", "u", "i", "r", "e", "d">>

Msg_ContractsNotConfigured == <<"C", "o", "n", "t", "r", "a", "c", "t", "s", " ", "n", "o", "t", " ", "c", "o", "n", "f", "i", "g", "u", "r", "e", "d">>

Msg_FileNotFound == <<"F", "i", "l", "e", " ", "n", "o", "t", " ", "f", "o", "u", "n", "d">>

Msg_InvalidFileData == <<"I", "n", "v", "a", "l", "i", "d", " ", "f", "i", "l", "e", " ", "d", "a", "t", "a">>

Msg_FileIsPublic == <<"F", "i", "l", "e", " ", "i", "s", " ", "p", "u", "b", "l", "i", "c">>

Msg_PermissionDenied == <<"P", "e", "r", "m", "i", "s", "s", "i", "o", "n", " ", "d", "e", "n", "i", "e", "d">>

Msg_FailedToShare == <<"F", "a", "i", "l", "e", "d", " ", "t", "o", " ", "s", "h", "a", "r", "e", " ", "f", "i", "l", "e">>

Msg_ReadingBundlerRpcUrl == <<"C", "a", "n", "n", "o", "t", " ", "r", "e", "a", "d", " ", "p", "r", "o", "p", "e", "r", "t", "i", "e", "s", " ", "o", "f", " ", "u", "n", "d", "e", "f", "i", "n", "e", "d", " ", "(", "r", "e", "a", "d", "i", "n", "g", " ", "'", "b", "u", "n", "d", "l", "e", "r", "R", "p", "c", "U", "r", "l", "'", ")">>

Prefix_baga == <<"b", "a", "g", "a">>

Prefix_bafk == <<"b", "a", "f", "k">>

Prefix_bafy == <<"b", "a", "f", "y">>

\* validatePieceCid: the error it throws, or NoError
validatePieceCid(pieceCid) ==
  IF pieceCid = <<>> THEN createValidationError(Msg_InvalidPieceCid)
  ELSE IF ~startsWith(pieceCid, Prefix_baga) /\ ~startsWith(pieceCid, Prefix_bafk)
          /\ ~startsWith(pieceCid, Prefix_bafy)
    THEN createValidationError(Msg_InvalidPieceCidFormat)
  ELSE NoError

HexDigits ==
  {Digits[i] : i \in 1..Len(Digits)}
    \cup {"a", "b", "c", "d", "e", "f", "A", "B", "C", "D", "E", "F"}

\* /^0x[a-fA-F0-9]{40}$/.test(address)
IsEthereumAddress(address) ==
  /\ Len(address) = 42
  /\ address[1] = "0" /\ address[2] = "x"
  /\ \A i \in 3..42 : address[i] \in HexDigits

\* validateAddress: the error it throws, or NoError
validateAddress(address) ==
  IF address = <<>> THEN createValidationError(Msg_InvalidAddress)
  ELSE IF ~IsEthereumAddress(address)
    THEN createValidationError(Msg_InvalidAddressFormat)
  ELSE NoError

RECURSIVE Repeat(_, _)
\* String.prototype.repeat
Repeat(s, n) == IF n = 0 THEN <<>> ELSE s \o Repeat(s, n - 1)

\* the signer's address as the wallet gives it, in mixed case
SignerAddress == <<"0", "x">> \o Repeat(<<"A", "b">>, 20)

\* the signer's address as the events of the API carry it
SignerAddressLower == toLowerCase(SignerAddress)

\* the address of another wallet
OtherAddress == <<"0", "x">> \o Repeat(<<"c", "d">>, 20)

\* recipients: an address, one that is two digits short, one with letters that
\* are not hexadecimal digits, and the empty string
RecipientAddress == <<"0", "x">> \o Repeat(<<"E", "f">>, 20)

ShortAddress == <<"0", "x">> \o Repeat(<<"e", "f">>, 19)

NotHexAddress == <<"0", "x">> \o Repeat(<<"g", "h">>, 20)

\* piece CIDs: the one of the files the API holds, one of no file, one without
\* a CID prefix, and the empty string
Cid_bafk1 == <<"b", "a", "f", "k", "1">>

Cid_bafy2 == <<"b", "a", "f", "y", "2">>

Cid_b1 == <<"b", "1">>

\* a private file and a public file with the same piece CID
MetaPrivateFile ==
  <<LBrace, Pair("name", Name_report),
    Pair("filecoinStorageInfo.pieceCid", Cid_bafk1),
    Pair("accessType", Value_private), RBrace>>

MetaPublicFile ==
  <<LBrace, Pair("name", Name_Invoice),
    Pair("filecoinStorageInfo.pieceCID", Cid_bafk1),
    Pair("accessType", Value_public), RBrace>>

\* the events the API may hold: an identifier, a metadata text and an owner
RegistryRawEvents ==
  { <<id, metadata, owner>> :
      id \in {Id_AbC123, Id_d4}, metadata \in {MetaPrivateFile, MetaPublicFile},
      owner \in {SignerAddressLower, OtherAddress} }

\* the deploy events of one role, given identifier, metadata and owner of each
RegistryStreamOf(role, raw) ==
  [i \in 1..Len(raw) |->
     [fileIdentifier |-> raw[i][1],
      fileMetadata |-> raw[i][2],
      fileContractAddress |-> ContractAt(role, "permissionedFileDeployeds", i),
      fileOwner |-> raw[i][3]]]

\* the API's content: deploy events of files the wallet owns, and of files it
\* was given access to
RegistryApiContents ==
  UNION { { [owner |->
               [permissionedFileDeployeds |-> RegistryStreamOf("owner", od),
                permissionedFileAccessMinteds |-> <<>>],
             minter |->
               [permissionedFileDeployeds |-> RegistryStreamOf("minter", md),
                permissionedFileAccessMinteds |-> <<>>]] :
              od \in [1..l[1] -> RegistryRawEvents], md \in [1..l[3] -> RegistryRawEvents] } :
          l \in {m \in StreamLengths : m[2] = 0 /\ m[4] = 0} }

\* how the SDK was constructed: with a private key or not, with an encryption
\* configuration or not
FullConfig == [privateKey |-> TRUE, encryption |-> TRUE]

SDKConfigs ==
  { [privateKey |-> TRUE, encryption |-> TRUE],
    [privateKey |-> TRUE, encryption |-> FALSE],
    [privateKey |-> FALSE, encryption |-> TRUE] }

\* this.encryption and this.contracts are made if (config.encryption && privateKey)
HasContracts(config) == config.encryption /\ config.privateKey

\* the calls of delete and share
RegistryCalls ==
  { [name |-> "delete", pieceCid |-> c, recipient |-> <<>>, config |-> FullConfig] :
      c \in {Cid_bafk1, Cid_bafy2, Cid_b1, <<>>} }
  \cup
  { [name |-> "delete", pieceCid |-> Cid_bafk1, recipient |-> <<>>, config |-> k] :
      k \in SDKConfigs }
  \cup
  { [name |-> "share", pieceCid |-> c, recipient |-> RecipientAddress,
     config |-> FullConfig] : c \in {Cid_bafk1, Cid_bafy2, Cid_b1} }
  \cup
  { [name |-> "share", pieceCid |-> Cid_bafk1, recipient |-> a, config |-> FullConfig] :
      a \in {ShortAddress, NotHexAddress, <<>>} }
  \cup
  { [name |-> "share", pieceCid |-> Cid_bafk1, recipient |-> RecipientAddress,
     config |-> k] : k \in SDKConfigs }

\* list called without options: this.list(), this.list({debug})
NoListOptions == [pageSize |-> 0, maxPages |-> 0, filterBy |-> NoFilter, sortBy |-> NoSort]

\* at: how far the call has come; file: the entry found; submitted: the
\* transactions handed to the contract manager; error: what the call threw
InitRegistry ==
  /\ api \in RegistryApiContents
  /\ options = NoListOptions
  /\ pc = "idle"
  /\ fetch = [r \in Roles |-> InitFetch]
  /\ allFiles = <<>>
  /\ oracle = NoOracle
  /\ fault = NoFault
  /\ result = <<>>
  /\ thrown = NoError
  /\ requests = [r \in Roles |-> <<>>]
  /\ \E call \in RegistryCalls :
       op = [name |-> call.name, pieceCid |-> call.pieceCid, recipient |-> call.recipient,
             config |-> call.config, at |-> "called", file |-> <<>>,
             submitted |-> <<>>, error |-> NoError]

listVars == <<api, options, fetch, allFiles, oracle, fault, result, thrown, requests>>

Throws(error) == op' = [op EXCEPT !.at = "threw", !.error = error]

\* an ownership check that lets every signer through
IsOwner_Anyone(fileData, currentAddress) == TRUE

\* fileData.owner?.toLowerCase() === currentAddress.toLowerCase()
IsOwner(fileData, currentAddress) ==
  toLowerCase(fileData.owner) = toLowerCase(currentAddress)

\* a check that takes every file to be private
IsPublicEntry_Never(fileData) == FALSE

\* if (fileData.isPublic)
IsPublicEntry(fileData) == fileData.isPublic

\* the entries list returned whose pieceCid is the one asked for
MatchingFiles(files, pieceCid) ==
  LET Matches(file) == file.pieceCid = Str(pieceCid)
  IN SelectSeq(files, Matches)

\* delete up to its call of list: the piece CID is validated and the private
\* key looked for
DeleteStart ==
  /\ op.name = "delete" /\ op.at = "called"
  /\ IF validatePieceCid(op.pieceCid) # NoError
     THEN Throws(validatePieceCid(op.pieceCid)) /\ UNCHANGED pc
     ELSE IF ~op.config.privateKey
     THEN Throws(createValidationError(Msg_PrivateKeyRequired)) /\ UNCHANGED pc
     ELSE op' = [op EXCEPT !.at = "listing"] /\ pc' = "fetching"
  /\ UNCHANGED listVars

\* list throws: the catch of delete rethrows its error, an SDKError already
DeleteListThrows ==
  /\ op.name = "delete" /\ op.at = "listing" /\ pc = "threw"
  /\ Throws(thrown)
  /\ UNCHANGED <<pc, listVars>>

\* list returns: delete looks for the first entry with the piece CID and
\* verifies that the signer owns it
DeleteFind ==
  /\ op.name = "delete" /\ op.at = "listing" /\ pc = "returned"
  /\ LET matching == MatchingFiles(result, op.pieceCid)
         fileData == matching[1]
     IN IF matching = <<>>
        THEN Throws(createValidationError(Msg_FileNotFound))
        ELSE IF fileData.dataIdentifier = <<>>
        THEN Throws(createValidationError(Msg_InvalidFileData))
        ELSE IF ~IsOwner(fileData, SignerAddress)
        THEN Throws(createValidationError(Msg_PermissionDenied))
        ELSE op' = [op EXCEPT !.at = "kernel", !.file = fileData]
  /\ UNCHANGED <<pc, listVars>>

\* the kernel client cannot be made: the authorization or the client request
\* fails, or there is no encryption configuration to read the bundler URL from
DeleteKernelFails ==
  /\ op.name = "delete" /\ op.at = "kernel"
  /\ \/ Throws(normalize(FetchRejectionMessage))
     \/ ~op.config.encryption /\ Throws(normalize(Msg_ReadingBundlerRpcUrl))
  /\ UNCHANGED <<pc, listVars>>

\* the kernel client is made and delete calls contracts.deleteFile with the
\* identifier of the entry found; the transaction goes through, or fails
DeleteSubmit ==
  /\ op.name = "delete" /\ op.at = "kernel"
  /\ op.config.encryption
  /\ LET tx == [method |-> "deleteFile", dataIdentifier |-> op.file.dataIdentifier,
                recipient |-> <<>>]
     IN \/ op' = [op EXCEPT !.at = "returned", !.submitted = Append(@, tx)]
        \/ op' = [op EXCEPT !.at = "threw", !.submitted = Append(@, tx),
                            !.error = normalize(FetchRejectionMessage)]
  /\ UNCHANGED <<pc, listVars>>

\* share up to its call of list: piece CID and recipient are validated and the
\* contract manager looked for
ShareStart ==
  /\ op.name = "share" /\ op.at = "called"
  /\ IF validatePieceCid(op.pieceCid) # NoError
     THEN Throws(validatePieceCid(op.pieceCid)) /\ UNCHANGED pc
     ELSE IF validateAddress(op.recipient) # NoError
     THEN Throws(validateAddress(op.recipient)) /\ UNCHANGED pc
     ELSE IF ~HasContracts(op.config)
     THEN Throws(createValidationError(Msg_ContractsNotConfigured)) /\ UNCHANGED pc
     ELSE op' = [op EXCEPT !.at = "listing"] /\ pc' = "fetching"
  /\ UNCHANGED listVars

\* list throws: the catch of share rethrows its error
ShareListThrows ==
  /\ op.name = "share" /\ op.at = "listing" /\ pc = "threw"
  /\ Throws(thrown)
  /\ UNCHANGED <<pc, listVars>>

\* list returns: share takes the first entry with the piece CID, refuses a
\* public file and verifies that the signer owns the file
ShareFind ==
  /\ op.name = "share" /\ op.at = "listing" /\ pc = "returned"
  /\ LET matchingFiles == MatchingFiles(result, op.pieceCid)
         fileData == matchingFiles[1]
     IN IF Len(matchingFiles) = 0
        THEN Throws(createValidationError(Msg_FileNotFound))
        ELSE IF IsPublicEntry(fileData)
        THEN Throws(createValidationError(Msg_FileIsPublic))
        ELSE IF ~IsOwner(fileData, SignerAddress)
        THEN Throws(createValidationError(Msg_PermissionDenied))
        ELSE op' = [op EXCEPT !.at = "kernel", !.file = fileData]
  /\ UNCHANGED <<pc, listVars>>

\* the kernel client cannot be made
ShareKernelFails ==
  /\ op.name = "share" /\ op.at = "kernel"
  /\ Throws(normalize(FetchRejectionMessage))
  /\ UNCHANGED <<pc, listVars>>

\* the kernel client is made and share calls contracts.shareFile with the
\* identifier of the entry found and the recipient; the transaction goes
\* through, or shareFile throws its contract error
ShareSubmit ==
  /\ op.name = "share" /\ op.at = "kernel"
  /\ LET tx == [method |-> "shareFile", dataIdentifier |-> op.file.dataIdentifier,
                recipient |-> op.recipient]
     IN \/ op' = [op EXCEPT !.at = "returned", !.submitted = Append(@, tx)]
        \/ op' = [op EXCEPT !.at = "threw", !.submitted = Append(@, tx),
                            !.error = createContractError(Msg_FailedToShare)]
  /\ UNCHANGED <<pc, listVars>>

NextRegistry ==
  \/ DeleteStart
  \/ DeleteListThrows
  \/ DeleteFind
  \/ DeleteKernelFails
  \/ DeleteSubmit
  \/ ShareStart
  \/ ShareListThrows
  \/ ShareFind
  \/ ShareKernelFails
  \/ ShareSubmit
  \/ Next

SpecRegistry == InitRegistry /\ [][NextRegistry]_vars

\* the first entry list returned for the piece CID of the call
FoundFile == MatchingFiles(result, op.pieceCid)[1]

HasMatchingFile == MatchingFiles(result, op.pieceCid) # <<>>

\* the call has come past its lookup, or has thrown before it
LookupOver == op.at \in {"kernel", "returned", "threw"}

ThrewValidation == op.at = "threw" /\ op.error.category = "VALIDATION"

\* C23: delete(pieceCid) submits the registry delete transaction only if list
\* returned an entry with that pieceCid whose owner is the signer's address
\* compared without regard to letter case, and the transaction names that
\* entry's identifier; when list returned no entry with that pieceCid, or the
\* entry found is owned by another address, delete throws a VALIDATION error
\* and submits no transaction.
C23_DeleteOnlyOwnFile ==
  op.name = "delete" =>
    /\ Len(op.submitted) <= 1
    /\ op.submitted # <<>> =>
         /\ pc = "returned"
         /\ \E i \in 1..Len(result) :
              /\ result[i].pieceCid = Str(op.pieceCid)
              /\ toLowerCase(result[i].owner) = toLowerCase(SignerAddress)
              /\ op.submitted[1].dataIdentifier = result[i].dataIdentifier
         /\ op.submitted[1].method = "deleteFile"
    /\ LookupOver /\ pc = "returned" /\ ~HasMatchingFile =>
         ThrewValidation /\ op.submitted = <<>>
    /\ LookupOver /\ pc = "returned" /\ HasMatchingFile
         /\ toLowerCase(FoundFile.owner) # toLowerCase(SignerAddress) =>
         ThrewValidation /\ op.submitted = <<>>

\* delete has returned after submitting the transaction for the signer's file,
\* whose owner the API gives in lower case; list had returned a second entry
\* with the same pieceCid owned by another address
C23_Witness ==
  /\ op.name = "delete"
  /\ op.at = "returned"
  /\ Len(op.submitted) = 1
  /\ Len(result) = 2
  /\ op.submitted[1].dataIdentifier = result[1].dataIdentifier
  /\ result[1].owner = SignerAddressLower
  /\ result[1].owner # SignerAddress
  /\ result[2].pieceCid = Str(op.pieceCid)
  /\ result[2].owner = OtherAddress

\* delete has thrown for a file of another owner
C23_WitnessDenied ==
  /\ op.name = "delete"
  /\ op.at = "threw"
  /\ op.error.message = Msg_PermissionDenied
  /\ Len(result) = 2
  /\ result[2].owner = SignerAddressLower

\* the call of share may submit: its arguments are valid, list returned, and
\* the first entry with the pieceCid is private and owned by the signer
ShareAllowed ==
  /\ validatePieceCid(op.pieceCid) = NoError
  /\ validateAddress(op.recipient) = NoError
  /\ pc = "returned"
  /\ HasMatchingFile
  /\ ~FoundFile.isPublic
  /\ toLowerCase(FoundFile.owner) = toLowerCase(SignerAddress)

\* C24: share(pieceCid, {recipient}) submits the access-minting transaction
\* only if the pieceCid and the recipient pass validation, list returned an
\* entry with that pieceCid, that entry is not public and its owner is the
\* signer's address compared without regard to letter case; in every other
\* case share throws and submits no transaction.
C24_ShareOnlyOwnPrivateFile ==
  op.name = "share" =>
    /\ Len(op.submitted) <= 1
    /\ op.submitted # <<>> =>
         /\ ShareAllowed
         /\ op.submitted[1] = [method |-> "shareFile",
                               dataIdentifier |-> FoundFile.dataIdentifier,
                               recipient |-> op.recipient]
    /\ op.at \in {"kernel", "returned"} => ShareAllowed
    /\ (op.at = "threw" \/ (op.at = "listing" /\ pc \in {"returned", "threw"}))
         /\ ~ShareAllowed => op.submitted = <<>>
    /\ LookupOver /\ ~ShareAllowed => op.at = "threw" /\ op.error # NoError

\* share has returned after submitting the transaction for the signer's
\* private file; list had returned a public file as well
C24_Witness ==
  /\ op.name = "share"
  /\ op.at = "returned"
  /\ Len(op.submitted) = 1
  /\ op.submitted[1].recipient = RecipientAddress
  /\ Len(result) = 2
  /\ \E i \in 1..2 : result[i].isPublic
  /\ FoundFile.owner = SignerAddressLower

\* share has thrown for a public file that the signer owns
C24_WitnessPublic ==
  /\ op.name = "share"
  /\ op.at = "threw"
  /\ op.error.message = Msg_FileIsPublic
  /\ FoundFile.owner = SignerAddressLower

(***************************************************************************)
(* download: fetch the bytes of a piece and decrypt them when they are an  *)
(* encrypted envelope.                                                     *)
(***************************************************************************)
createEncryptionError(message) ==
  [name |-> "SDKError", category |-> "ENCRYPTION", message |-> message]

createStorageError(message) ==
  [name |-> "SDKError", category |-> "STORAGE", message |-> message]

Msg_EncryptionNotConfigured == <<"E", "n", "c", "r", "y", "p", "t", "i", "o", "n", " ", "n", "o", "t", " ", "c", "o", "n", "f", "i", "g", "u", "r", "e", "d">>

Msg_DecryptionFailed == <<"D", "e", "c", "r", "y", "p", "t", "i", "o", "n", " ", "f", "a", "i", "l", "e", "d">>

Msg_DownloadFailed == <<"D", "o", "w", "n", "l", "o", "a", "d", " ", "f", "a", "i", "l", "e", "d">>

\* what the storage network may hold for a piece: an encrypted envelope, an
\* envelope without its hash, a JSON document that is no envelope, and bytes
\* that are not JSON
PayloadEnvelope ==
  <<LBrace, Pair("ciphertext", <<"c", "t">>), Pair("dataToEncryptHash", <<"h", "s">>),
    Pair("accessControlConditions", <<"a", "c">>), Pair("metadata", Name_report), RBrace>>

PayloadNoHash ==
  <<LBrace, Pair("ciphertext", <<"c", "t">>),
    Pair("accessControlConditions", <<"a", "c">>), RBrace>>

PayloadJson == <<LBrace, Pair("name", Name_Invoice), RBrace>>

PayloadBytes == <<LBrace, Pair("ciphertext", <<"c", "t">>)>>

Payloads == {PayloadEnvelope, PayloadNoHash, PayloadJson, PayloadBytes}

\* what an envelope decrypts to
Plaintext == <<"h", "i">>

\* options.decrypt: left out, true or false
DecryptOptions == {"undefined", "true", "false"}

DownloadCalls ==
  [name : {"download"}, pieceCid : {Cid_bafk1, Cid_b1, <<>>}, decrypt : DecryptOptions,
   config : SDKConfigs, payload : Payloads]

\* at: how far the call has come; caught: the error the inner catch swallowed;
\* returned: the DownloadResult; error: what the call threw
InitDownload ==
  /\ api = <<>>
  /\ options = NoListOptions
  /\ pc = "idle"
  /\ fetch = [r \in Roles |-> InitFetch]
  /\ allFiles = <<>>
  /\ oracle = NoOracle
  /\ fault = NoFault
  /\ result = <<>>
  /\ thrown = NoError
  /\ requests = [r \in Roles |-> <<>>]
  /\ \E call \in DownloadCalls :
       op = [name |-> call.name, pieceCid |-> call.pieceCid, decrypt |-> call.decrypt,
             config |-> call.config, payload |-> call.payload, at |-> "called",
             caught |-> NoError, returned |-> <<>>, error |-> NoError]

\* return { data: finalData, metadata, decrypted, ... }
DownloadResult(finalData, metadata, decrypted) ==
  [data |-> finalData, metadata |-> metadata, decrypted |-> decrypted]

\* parsed.ciphertext && parsed.dataToEncryptHash && parsed.accessControlConditions
IsEnvelope(parsed) ==
  /\ Truthy(Get(parsed, "ciphertext"))
  /\ Truthy(Get(parsed, "dataToEncryptHash"))
  /\ Truthy(Get(parsed, "accessControlConditions"))

\* catch (parseError): whatever the try block threw, the bytes are returned
\* as they came
InnerCatch(caught, rawData) ==
  [op EXCEPT !.at = "returned", !.caught = caught,
             !.returned = DownloadResult(rawData, Undefined, FALSE)]

\* download up to its call of the storage manager
DownloadStart ==
  /\ op.name = "download" /\ op.at = "called"
  /\ IF validatePieceCid(op.pieceCid) # NoError
     THEN Throws(validatePieceCid(op.pieceCid))
     ELSE op' = [op EXCEPT !.at = "fetching"]
  /\ UNCHANGED <<pc, listVars>>

\* storage.download throws its storage error and the catch of download
\* rethrows it
DownloadFetchFails ==
  /\ op.name = "download" /\ op.at = "fetching"
  /\ Throws(createStorageError(Msg_DownloadFailed))
  /\ UNCHANGED <<pc, listVars>>

\* storage.download returns the bytes.  Unless decrypt is false they are
\* parsed; an envelope is handed to encryption.decrypt when encryption is
\* configured; everything else, and every error, ends in the bytes being
\* returned as they came.
DownloadFetched ==
  /\ op.name = "download" /\ op.at = "fetching"
  /\ LET rawData == op.payload
         parsed == JSONparse(rawData)
     IN IF op.decrypt = "false"
        THEN op' = [op EXCEPT !.at = "returned",
                              !.returned = DownloadResult(rawData, Undefined, FALSE)]
        ELSE IF ~parsed.ok
        THEN op' = InnerCatch(JsonSyntaxError, rawData)
        ELSE IF ~IsEnvelope(parsed.value)
        THEN op' = [op EXCEPT !.at = "returned",
                              !.returned = DownloadResult(rawData, Undefined, FALSE)]
        ELSE IF ~HasContracts(op.config)
        THEN op' = InnerCatch(createValidationError(Msg_EncryptionNotConfigured), rawData)
        ELSE op' = [op EXCEPT !.at = "decrypting"]
  /\ UNCHANGED <<pc, listVars>>

\* encryption.decrypt returns the plaintext
DownloadDecrypted ==
  /\ op.name = "download" /\ op.at = "decrypting"
  /\ op' = [op EXCEPT !.at = "returned",
                      !.returned = DownloadResult(Plaintext,
                                     Get(JSONparse(op.payload).value, "metadata"), TRUE)]
  /\ UNCHANGED <<pc, listVars>>

\* encryption.decrypt throws its encryption error, into the inner catch
DownloadDecryptFails ==
  /\ op.name = "download" /\ op.at = "decrypting"
  /\ op' = InnerCatch(createEncryptionError(Msg_DecryptionFailed), op.payload)
  /\ UNCHANGED <<pc, listVars>>

NextDownload ==
  \/ DownloadStart
  \/ DownloadFetchFails
  \/ DownloadFetched
  \/ DownloadDecrypted
  \/ DownloadDecryptFails

SpecDownload == InitDownload /\ [][NextDownload]_vars

\* the bytes of the call are an encrypted envelope and decryption is asked for
EnvelopeToDecrypt ==
  /\ op.name = "download"
  /\ op.decrypt # "false"
  /\ JSONparse(op.payload).ok
  /\ IsEnvelope(JSONparse(op.payload).value)

\* C25: for download with decrypt not set to false, when the payload is an
\* encrypted envelope and decryption fails or encryption is not configured,
\* download throws; it never returns the still-encrypted bytes with
\* decrypted = false.
C25_UndecryptableEnvelopeThrows ==
  EnvelopeToDecrypt =>
    /\ op.at = "returned" => op.returned.decrypted /\ op.returned.data # op.payload
    /\ op.caught # NoError => op.at = "threw" /\ op.error = op.caught

(***************************************************************************)
(* A caller that calls list twice with the same options while the API      *)
(* keeps answering each request as it did before.                          *)
(***************************************************************************)
\* how a call of list ended; pc "none": it has not ended
NoOutcome ==
  [pc |-> "none", result |-> <<>>, thrown |-> NoError, oracle |-> NoOracle,
   fault |-> NoFault]

Outcome ==
  [pc |-> pc, result |-> result, thrown |-> thrown, oracle |-> oracle, fault |-> fault]

TwiceOptionsSet == {o \in ListOptionsSet : o.maxPages = 0 /\ o.filterBy = NoFilter}

InitTwice ==
  /\ api \in ApiContents
  /\ options \in TwiceOptionsSet
  /\ pc = "fetching"
  /\ fetch = [r \in Roles |-> InitFetch]
  /\ allFiles = <<>>
  /\ oracle = NoOracle
  /\ fault = NoFault
  /\ result = <<>>
  /\ thrown = NoError
  /\ requests = [r \in Roles |-> <<>>]
  /\ op = [name |-> "twice", call |-> 1, first |-> NoOutcome]

\* a step of the first call
FirstCall == op.call = 1 /\ Next

\* a second call that goes on with the skip counters of the first
SecondCall_KeepsSkip ==
  /\ op.call = 1
  /\ pc \in {"returned", "threw"}
  /\ op' = [op EXCEPT !.call = 2, !.first = Outcome]
  /\ pc' = "fetching"
  /\ fetch' = [r \in Roles |-> [InitFetch EXCEPT !.skip = fetch[r].skip]]
  /\ allFiles' = <<>>
  /\ oracle' = NoOracle
  /\ fault' = NoFault
  /\ result' = <<>>
  /\ thrown' = NoError
  /\ requests' = [r \in Roles |-> <<>>]
  /\ UNCHANGED <<api, options>>

\* The first call has ended and the caller calls list again: every local of
\* list, and of its two fetches, is made anew.
SecondCall ==
  /\ op.call = 1
  /\ pc \in {"returned", "threw"}
  /\ op' = [op EXCEPT !.call = 2, !.first = Outcome]
  /\ pc' = "fetching"
  /\ fetch' = [r \in Roles |-> InitFetch]
  /\ allFiles' = <<>>
  /\ oracle' = NoOracle
  /\ fault' = NoFault
  /\ result' = <<>>
  /\ thrown' = NoError
  /\ requests' = [r \in Roles |-> <<>>]
  /\ UNCHANGED <<api, options>>

\* the page request that the API failed in the first call
FailedBefore(r) ==
  /\ op.first.fault.at = "page"
  /\ op.first.fault.role = r
  /\ op.first.fault.page = fetch[r].page

\* the steps of the second call: each request is answered as in the first
AgainPageOk ==
  /\ op.call = 2
  /\ \E isOwner \in BOOLEAN : ~FailedBefore(RoleOf(isOwner)) /\ FetchPageOk(isOwner)

AgainPageFail ==
  /\ op.call = 2
  /\ \E isOwner \in BOOLEAN :
       FailedBefore(RoleOf(isOwner)) /\ FetchPageFail(isOwner) /\ fault' = op.first.fault

AgainReconcile == op.call = 2 /\ Reconcile

AgainOracleOk ==
  /\ op.call = 2
  /\ op.first.oracle.status = "ok"
  /\ OracleOk
  /\ oracle'.deletedFiles = op.first.oracle.deletedFiles

AgainOracleFail ==
  /\ op.call = 2
  /\ op.first.oracle.status = "failed"
  /\ OracleFail
  /\ fault' = op.first.fault

NextTwice ==
  \/ FirstCall
  \/ SecondCall
  \/ AgainPageOk
  \/ AgainPageFail
  \/ AgainReconcile
  \/ AgainOracleOk
  \/ AgainOracleFail

SpecTwice == InitTwice /\ [][NextTwice]_vars

\* C21: two successive list calls with the same options, the API answering
\* the second as it answered the first, return the same set of identifiers:
\* when the second call returns, the first had returned, with entries of the
\* same identifiers; and the second call throws only if the first threw.
C21_SecondListReturnsSameIdentifiers ==
  op.name = "twice" /\ op.call = 2 =>
    /\ pc = "returned" =>
         /\ op.first.pc = "returned"
         /\ ResultIds = {op.first.result[i].dataIdentifier : i \in 1..Len(op.first.result)}
         /\ Len(result) = Len(op.first.result)
    /\ pc = "threw" => op.first.pc = "threw"
    /\ oracle.status # "none" => oracle.request = op.first.oracle.request

\* both calls have returned two entries, each after two pages of the owner
\* fetch and an answer of the oracle
C21_Witness ==
  /\ op.name = "twice" /\ op.call = 2
  /\ pc = "returned"
  /\ op.first.pc = "returned"
  /\ Len(result) = 2
  /\ Len(op.first.result) = 2
  /\ fetch["owner"].page = 2
  /\ oracle.status = "ok"

(***************************************************************************)
(* The order of the entries list returns.                                  *)
(***************************************************************************)
\* the place, in processing order, of the event that inserted the identifier
InsertedAt(id) ==
  CHOOSE n \in 1..Len(AllFetched) :
    /\ SameIdentifier(AllFetched[n], id) /\ PassesBoth(AllFetched[n])
    /\ \A m \in 1..(n - 1) : ~(SameIdentifier(AllFetched[m], id) /\ PassesBoth(AllFetched[m]))

NameContains(e, v) ==
  LET name == Get(JSONparse(e.fileMetadata).value, "name")
  IN name # Undefined /\ includes(toLowerCase(name.s), toLowerCase(v))

\* C32: the list filter loses no matching record: with filterBy
\* {field: "fileName", value: v, operator: "contains"}, every record that has
\* complete metadata, is not reported deleted and whose file name contains v
\* in any letter case is returned.
C32_FileNameFilterLosesNoMatch ==
  (pc = "returned" /\ options.filterBy.field = "fileName"
     /\ options.filterBy.operator = "contains") =>
    \A k \in 1..Len(AllFetched) :
      (/\ IsCompleteEvent(AllFetched[k])
       /\ NameContains(AllFetched[k], options.filterBy.value)
       /\ ~ReportedDeleted(toLowerCase(AllFetched[k].fileIdentifier)))
        => toLowerCase(AllFetched[k].fileIdentifier) \in ResultIds

(***************************************************************************)
(* Termination of list: every request is answered in the end.              *)
(***************************************************************************)
\* each pending page request of a role is answered or fails, list goes on
\* once both fetches are done, and the oracle request is answered or fails
ListFairness ==
  /\ \A isOwner \in BOOLEAN : WF_vars(FetchPageOk(isOwner) \/ FetchPageFail(isOwner))
  /\ WF_vars(Reconcile)
  /\ WF_vars(OracleOk \/ OracleFail)

\* the events of the calls whose termination is checked: two complete documents
LiveRawEvents == { <<Id_abc123, MetaReport>>, <<Id_d4, MetaInvoice>> }

LiveApiContents ==
  UNION { { ApiContentOf(od, om, md, mm) :
              od \in [1..l[1] -> LiveRawEvents], om \in [1..l[2] -> LiveRawEvents],
              md \in [1..l[3] -> LiveRawEvents], mm \in [1..l[4] -> LiveRawEvents] } :
          l \in StreamLengths }

\* list is called without a filter, with every page size and both maxPages
InitLive ==
  /\ api \in LiveApiContents
  /\ options \in { o \in ListOptionsSet : o.filterBy = NoFilter }
  /\ pc = "fetching"
  /\ fetch = [r \in Roles |-> InitFetch]
  /\ allFiles = <<>>
  /\ oracle = NoOracle
  /\ fault = NoFault
  /\ result = <<>>
  /\ thrown = NoError
  /\ requests = [r \in Roles |-> <<>>]
  /\ op = NoOp

SpecLive == InitLive /\ [][Next]_vars /\ ListFairness

\* the page the API answered the n-th request of the role with was full
AnsweredFull(r, n) ==
  Len(PageOf(api[r], requests[r][n].skip, requests[r][n].first).permissionedFileDeployeds)
    = requests[r][n].first

\* no request of the role follows one that was answered with a page shorter
\* than the page size
StopsAtFirstShortPage ==
  \A r \in Roles : \A n \in 1..(Len(requests[r]) - 1) : AnsweredFull(r, n)

ListEnded == pc \in {"returned", "threw"}

\* C33: list terminates, returning an array or throwing, whenever every
\* request is answered in the end and, for each role, maxPages is finite or
\* the API answers in the end with a deployed page shorter than the page
\* size; the loop of each role stops at the first such page.
C33_ListTerminates == <>ListEnded /\ []StopsAtFirstShortPage

\* list has returned after the owner fetch stopped at its third page, the
\* first one shorter than the page size
C33_Witness ==
  /\ pc = "returned"
  /\ options.maxPages = 0
  /\ Len(requests["owner"]) = 3
  /\ AnsweredFull("owner", 1) /\ AnsweredFull("owner", 2)
  /\ ~AnsweredFull("owner", 3)

(***************************************************************************)
(* The backoff delay of the retry loops.                                   *)
(***************************************************************************)
\* RETRY_CONFIG
DEFAULT_ATTEMPTS == 10

BASE_DELAY_MS == 1000

MAX_DELAY_MS == 5000

BACKOFF_MULTIPLIER == 2

\* Math.pow(b, e) for a whole exponent that is not negative
RECURSIVE Pow(_, _)
Pow(b, e) == IF e = 0 THEN 1 ELSE b * Pow(b, e - 1)

\* a delay without the Math.min
calculateBackoffDelay_Uncapped(attempt, baseDelay) ==
  baseDelay * Pow(BACKOFF_MULTIPLIER, attempt - 1)

\* const delay = baseDelay * Math.pow(BACKOFF_MULTIPLIER, attempt - 1);
\* return Math.min(delay, MAX_DELAY_MS)
calculateBackoffDelay(attempt, baseDelay) ==
  LET delay == baseDelay * Pow(BACKOFF_MULTIPLIER, attempt - 1)
  IN Min(delay, MAX_DELAY_MS)

\* the largest attempt number the function is applied to
MaxAttempt == 12

\* the base delays the function is applied to, in milliseconds
BaseDelays == { 0, 1, 500, BASE_DELAY_MS, 2500, MAX_DELAY_MS, 6000 }

\* the list call is not running
ListIdle ==
  /\ api = <<>>
  /\ options = NoListOptions
  /\ pc = "idle"
  /\ fetch = [r \in Roles |-> InitFetch]
  /\ allFiles = <<>>
  /\ oracle = NoOracle
  /\ fault = NoFault
  /\ result = <<>>
  /\ thrown = NoError
  /\ requests = [r \in Roles |-> <<>>]

InitBackoff ==
  /\ ListIdle
  /\ \E attempt \in 1..MaxAttempt, baseDelay \in BaseDelays :
       op = [name |-> "calculateBackoffDelay", attempt |-> attempt,
             baseDelay |-> baseDelay, at |-> "called", delay |-> 0]

ApplyBackoff ==
  /\ op.name = "calculateBackoffDelay" /\ op.at = "called"
  /\ op' = [op EXCEPT !.at = "returned",
                      !.delay = calculateBackoffDelay(op.attempt, op.baseDelay)]
  /\ UNCHANGED <<pc, listVars>>

NextBackoff == ApplyBackoff

SpecBackoff == InitBackoff /\ [][NextBackoff]_vars

\* the delays the default base gives: 1000, 2000, 4000, then 5000 for ever
DefaultDelay(n) ==
  CASE n = 1 -> 1000
    [] n = 2 -> 2000
    [] n = 3 -> 4000
    [] OTHER -> 5000

\* C39: for every attempt number n >= 1, calculateBackoffDelay(n, base) is
\* the smaller of base * 2^(n-1) and 5000; with the default base of 1000 ms
\* the delays are 1000, 2000, 4000, 5000, 5000, ...; the delay does not
\* decrease when n grows and is never above MAX_DELAY_MS.
C39_BackoffDelayIsCappedDoubling ==
  op.at = "returned" =>
    /\ op.delay = IF op.baseDelay * 2^(op.attempt - 1) < 5000
                  THEN op.baseDelay * 2^(op.attempt - 1) ELSE 5000
    /\ op.baseDelay = BASE_DELAY_MS => op.delay = DefaultDelay(op.attempt)
    /\ op.delay <= calculateBackoffDelay(op.attempt + 1, op.baseDelay)
    /\ op.delay <= MAX_DELAY_MS

\* the fourth delay of the default base: 8000 ms capped to 5000 ms
C39_Witness ==
  /\ op.at = "returned"
  /\ op.attempt = 4 /\ op.baseDelay = BASE_DELAY_MS
  /\ op.delay = 5000

(***************************************************************************)
(* The retry loops of mintOwnerNFT and ContractManager.shareFile.          *)
(***************************************************************************)
Msg_FailedToMintOwnerNFT == <<"F", "a", "i", "l", "e", "d", " ", "t", "o", " ", "m", "i", "n", "t", " ", "o", "w", "n", "e", "r", " ", "N", "F", "T">>

\* what encodeFunctionData throws: an error of the library, not an SDKError
AbiEncodingError == [name |-> "AbiEncodingError", category |-> "none", message |-> <<>>]

\* retryAttempts and retryDelay: parameters of mintOwnerNFT that default to
\* RETRY_CONFIG, constants of shareFile
RetryCalls ==
  { [name |-> "mintOwnerNFT", retryAttempts |-> a, retryDelay |-> d] :
      a \in { 0, 1, 3, DEFAULT_ATTEMPTS }, d \in { 300, BASE_DELAY_MS } }
  \cup { [name |-> "shareFile", retryAttempts |-> DEFAULT_ATTEMPTS, retryDelay |-> BASE_DELAY_MS] }

\* attempt: the loop counter, 0 before the loop; waited: the delays the loop
\* has waited; sends: the user operations sent; failed, succeeded: the
\* attempts that ended in the catch and the ones that returned
InitRetry ==
  /\ ListIdle
  /\ \E call \in RetryCalls :
       op = [name |-> call.name, retryAttempts |-> call.retryAttempts,
             retryDelay |-> call.retryDelay, at |-> "called", attempt |-> 0,
             waited |-> <<>>, sends |-> 0, failed |-> 0, succeeded |-> 0,
             error |-> NoError]

\* a loop that makes one attempt more
InLoop_OneMore(attempt, retryAttempts) == attempt <= retryAttempts + 1

\* for (let attempt = 1; attempt <= retryAttempts; attempt++)
InLoop(attempt, retryAttempts) == attempt <= retryAttempts

\* what the function throws when the loop is left without a return:
\* mintOwnerNFT throws its contract error, shareFile throws lastError, which
\* its outer catch wraps
ErrorAfterLoop(name) ==
  IF name = "mintOwnerNFT"
  THEN createContractError(Msg_FailedToMintOwnerNFT)
  ELSE createContractError(Msg_FailedToShare)

\* the loop counter becomes attempt and the loop condition is tested
LoopTo(o, attempt) ==
  IF InLoop(attempt, o.retryAttempts)
  THEN [o EXCEPT !.at = "attempting", !.attempt = attempt]
  ELSE [o EXCEPT !.at = "threw", !.attempt = attempt, !.error = ErrorAfterLoop(o.name)]

\* the catch of the loop: continue when attempt < retryAttempts, else break
Caught(o) ==
  LET c == [o EXCEPT !.failed = o.failed + 1]
  IN IF o.attempt < o.retryAttempts
     THEN LoopTo(c, o.attempt + 1)
     ELSE [c EXCEPT !.at = "threw", !.error = ErrorAfterLoop(o.name)]

\* encodeFunctionData throws before the loop: mintOwnerNFT lets the error
\* through, the outer catch of shareFile wraps it
RetryEncodeDataFails ==
  /\ op.name \in { "mintOwnerNFT", "shareFile" } /\ op.at = "called"
  /\ op' = [op EXCEPT !.at = "threw",
                      !.error = IF op.name = "mintOwnerNFT" THEN AbiEncodingError
                                ELSE createContractError(Msg_FailedToShare)]
  /\ UNCHANGED <<pc, listVars>>

RetryEnter ==
  /\ op.name \in { "mintOwnerNFT", "shareFile" } /\ op.at = "called"
  /\ op' = LoopTo(op, 1)
  /\ UNCHANGED <<pc, listVars>>

\* if (attempt > 1) await new Promise(resolve => setTimeout(resolve, backoffDelay))
AttemptBegin ==
  /\ op.name \in { "mintOwnerNFT", "shareFile" } /\ op.at = "attempting"
  /\ op' = [op EXCEPT !.at = "sending",
                      !.waited = IF op.attempt > 1
                                 THEN Append(op.waited, calculateBackoffDelay(op.attempt - 1, op.retryDelay))
                                 ELSE op.waited]
  /\ UNCHANGED <<pc, listVars>>

\* kernelClient.account.encodeCalls rejects: nothing is sent
AttemptEncodeCallsFails ==
  /\ op.name \in { "mintOwnerNFT", "shareFile" } /\ op.at = "sending"
  /\ op' = Caught(op)
  /\ UNCHANGED <<pc, listVars>>

\* sendUserOperation rejects, or the 30 s timeout wins the race
AttemptSendFails ==
  /\ op.name \in { "mintOwnerNFT", "shareFile" } /\ op.at = "sending"
  /\ op' = Caught([op EXCEPT !.sends = op.sends + 1])
  /\ UNCHANGED <<pc, listVars>>

AttemptSent ==
  /\ op.name \in { "mintOwnerNFT", "shareFile" } /\ op.at = "sending"
  /\ op' = [op EXCEPT !.at = "receipt", !.sends = op.sends + 1]
  /\ UNCHANGED <<pc, listVars>>

\* waitForUserOperationReceipt rejects, or the 60 s timeout wins the race
AttemptReceiptFails ==
  /\ op.name \in { "mintOwnerNFT", "shareFile" } /\ op.at = "receipt"
  /\ op' = Caught(op)
  /\ UNCHANGED <<pc, listVars>>

\* the receipt arrives: return
AttemptSucceeds ==
  /\ op.name \in { "mintOwnerNFT", "shareFile" } /\ op.at = "receipt"
  /\ op' = [op EXCEPT !.at = "returned", !.succeeded = op.succeeded + 1]
  /\ UNCHANGED <<pc, listVars>>

NextRetry ==
  \/ RetryEncodeDataFails
  \/ RetryEnter
  \/ AttemptBegin
  \/ AttemptEncodeCallsFails
  \/ AttemptSendFails
  \/ AttemptSent
  \/ AttemptReceiptFails
  \/ AttemptSucceeds

SpecRetry == InitRetry /\ [][NextRetry]_vars

\* the loop has thrown: the call threw after the loop counter was set
LoopThrew == op.at = "threw" /\ op.attempt >= 1

\* C36: the retry loops send the user operation at most retryAttempts times,
\* make no attempt after the first one that succeeds, wait a backoff delay
\* before every attempt but the first, and throw a CONTRACT error only after
\* every attempt has failed.
C36_RetryLoop ==
  /\ op.sends <= op.retryAttempts
  /\ op.sends <= op.attempt
  /\ op.succeeded <= 1
  /\ op.succeeded = 1 => op.at = "returned" /\ op.failed = op.attempt - 1
  /\ op.at \in { "sending", "receipt", "returned" } =>
       /\ Len(op.waited) = op.attempt - 1
       /\ \A i \in 1..Len(op.waited) : op.waited[i] = calculateBackoffDelay(i, op.retryDelay)
  /\ LoopThrew =>
       /\ op.error.category = "CONTRACT"
       /\ op.failed = op.retryAttempts
       /\ op.succeeded = 0

\* shareFile has thrown after ten attempts, each of which sent the user
\* operation and failed
C36_Witness ==
  /\ op.name = "shareFile" /\ LoopThrew
  /\ op.failed = DEFAULT_ATTEMPTS /\ op.sends = DEFAULT_ATTEMPTS
  /\ op.waited = <<1000, 2000, 4000, 5000, 5000, 5000, 5000, 5000, 5000>>

\* mintOwnerNFT has returned from its third attempt
C36_WitnessSucceeds ==
  /\ op.name = "mintOwnerNFT" /\ op.at = "returned"
  /\ op.attempt = 3 /\ op.failed = 2
  /\ Len(op.waited) = 2

(***************************************************************************)
(* upload: encrypt, validate the payment, store, deploy the contracts.     *)
(***************************************************************************)
\* what createPaymentError(message) makes
createPaymentError(message) ==
  [name |-> "SDKError", category |-> "PAYMENT", message |-> message]

Msg_EncryptionFailed == <<"E", "n", "c", "r", "y", "p", "t", "i", "o", "n", " ", "f", "a", "i", "l", "e", "d">>

Msg_PaymentValidationFailed == <<"P", "a", "y", "m", "e", "n", "t", " ", "v", "a", "l", "i", "d", "a", "t", "i", "o", "n", " ", "f", "a", "i", "l", "e", "d">>

\* the message of the payment error, without the balance it ends with
Msg_InsufficientBalance == <<"I", "n", "s", "u", "f", "f", "i", "c", "i", "e", "n", "t", " ", "U", "S", "D", "F", "C", " ", "b", "a", "l", "a", "n", "c", "e">>

Msg_UploadFailed == <<"U", "p", "l", "o", "a", "d", " ", "f", "a", "i", "l", "e", "d">>

\* what validatePayment throws: its payment error, or its storage error for
\* every other failure
PaymentErrors ==
  { createPaymentError(Msg_InsufficientBalance), createStorageError(Msg_PaymentValidationFailed) }

\* the hash deployPermissionedData returns
DeployTxHash == Str(<<"0", "x", "d", "1">>)

\* how many callbacks the storage service makes while one of its calls runs
MaxCallbacks == 2

\* the percentages of the callbacks handed to synapse.createStorage: dataset
\* resolved, creation started, transaction confirmed, server confirmed,
\* provider selected
CreateStorageCallbacks == { 30, 35, 45, 50, 55 }

\* the percentages of the callbacks handed to storageService.upload: upload
\* complete, piece added, piece confirmed
UploadCallbacks == { 80, 90, 95 }

\* configured: the SDK was constructed with config.encryption and a private
\* key, which is when it has this.encryption and this.contracts
UploadCalls ==
  [configured : BOOLEAN, skipPaymentCheck : BOOLEAN, isPublic : BOOLEAN, providerId : BOOLEAN]

\* steps: the steps the call has started, in order; progress: the percentage
\* values delivered to onProgress, in order; callbacks: how many callbacks
\* the storage call that is running has made
InitUpload ==
  /\ ListIdle
  /\ \E call \in UploadCalls :
       op = [name |-> "upload", configured |-> call.configured,
             skipPaymentCheck |-> call.skipPaymentCheck, isPublic |-> call.isPublic,
             providerId |-> call.providerId, at |-> "called", steps |-> <<>>,
             progress |-> <<>>, callbacks |-> 0, datasetCreated |-> FALSE,
             pieceCid |-> Undefined, contractTxHash |-> Undefined,
             contractError |-> FALSE, returned |-> <<>>, error |-> NoError]

\* onProgress is called with each of the percentages
Progress(o, percentages) == [o EXCEPT !.progress = o.progress \o percentages]

\* a step of upload starts
Step(o, step, at) == [o EXCEPT !.steps = Append(o.steps, step), !.at = at]

\* the catch of upload: throw ErrorHandler.normalize(error), which hands an
\* SDKError back as it is
UploadThrows(o, error) == [o EXCEPT !.at = "threw", !.error = error]

\* if (!options?.skipPaymentCheck)
PaymentChecked_Never(o) == FALSE

PaymentChecked(o) == ~o.skipPaymentCheck

\* percentage 40, then storage.upload starts with percentage 0
BeginStorage(o) == Step(Progress(o, <<40, 0>>), "storage", "address")

\* percentage 100 and return { pieceCid, ..., contractTxHash }
Finish(o) ==
  LET p == Progress(o, <<100>>)
  IN [p EXCEPT !.at = "returned",
               !.returned = [pieceCid |-> o.pieceCid, encrypted |-> TRUE,
                             accessType |-> IF o.isPublic THEN "public" ELSE "private",
                             datasetCreated |-> o.datasetCreated,
                             contractTxHash |-> o.contractTxHash]]

\* a catch of the contract phase that throws the error on
ContractCatch_Rethrows(o) ==
  UploadThrows([o EXCEPT !.contractError = TRUE], createContractError(Msg_FailedToMintOwnerNFT))

\* catch (contractError) { console.warn(...) }: upload goes on
ContractCatch(o) == Finish([o EXCEPT !.contractError = TRUE])

\* percentage 0; without encryption the validation error; else percentage 20
\* and encryption.encrypt is called
UploadStart ==
  /\ op.name = "upload" /\ op.at = "called"
  /\ op' = IF ~op.configured
           THEN UploadThrows(Progress(op, <<0>>), createValidationError(Msg_EncryptionNotConfigured))
           ELSE Step(Progress(op, <<0, 20>>), "encrypt", "encrypting")
  /\ UNCHANGED <<pc, listVars>>

EncryptFails ==
  /\ op.name = "upload" /\ op.at = "encrypting"
  /\ op' = UploadThrows(op, createEncryptionError(Msg_EncryptionFailed))
  /\ UNCHANGED <<pc, listVars>>

\* the payload is built; percentage 30 and validatePayment, or the storage
\* upload at once
Encrypted ==
  /\ op.name = "upload" /\ op.at = "encrypting"
  /\ op' = IF PaymentChecked(op)
           THEN Step(Progress(op, <<30>>), "payment", "validating")
           ELSE BeginStorage(op)
  /\ UNCHANGED <<pc, listVars>>

PaymentFails ==
  /\ op.name = "upload" /\ op.at = "validating"
  /\ \E error \in PaymentErrors : op' = UploadThrows(op, error)
  /\ UNCHANGED <<pc, listVars>>

PaymentValidated ==
  /\ op.name = "upload" /\ op.at = "validating"
  /\ op' = BeginStorage(op)
  /\ UNCHANGED <<pc, listVars>>

\* a call of storage.upload rejects: its catch throws the storage error
StorageFails ==
  /\ op.name = "upload" /\ op.at \in { "address", "proofset", "creating", "uploading" }
  /\ op' = UploadThrows(op, createStorageError(Msg_UploadFailed))
  /\ UNCHANGED <<pc, listVars>>

\* getSigner().getAddress() returns: percentage 5
StorageAddressed ==
  /\ op.name = "upload" /\ op.at = "address"
  /\ op' = [Progress(op, <<5>>) EXCEPT !.at = "proofset"]
  /\ UNCHANGED <<pc, listVars>>

\* getOptimalProofset returns a proofset or null: percentage 25, and 28 when
\* a provider id was given; synapse.createStorage is called
ProofsetLookedUp ==
  /\ op.name = "upload" /\ op.at = "proofset"
  /\ \E found \in BOOLEAN :
       op' = [Progress(op, IF op.providerId THEN <<25, 28>> ELSE <<25>>)
                EXCEPT !.at = "creating", !.datasetCreated = ~found, !.callbacks = 0]
  /\ UNCHANGED <<pc, listVars>>

\* the storage service makes one of the callbacks of createStorage
CreateStorageCallback ==
  /\ op.name = "upload" /\ op.at = "creating" /\ op.callbacks < MaxCallbacks
  /\ \E percentage \in CreateStorageCallbacks :
       op' = [Progress(op, <<percentage>>)
                EXCEPT !.callbacks = op.callbacks + 1,
                       !.datasetCreated = op.datasetCreated \/ percentage = 35]
  /\ UNCHANGED <<pc, listVars>>

\* createStorage returns: percentage 60 and storageService.upload is called
StorageCreated ==
  /\ op.name = "upload" /\ op.at = "creating"
  /\ op' = [Progress(op, <<60>>) EXCEPT !.at = "uploading", !.callbacks = 0]
  /\ UNCHANGED <<pc, listVars>>

\* the storage service makes one of the callbacks of its upload
UploadCallback ==
  /\ op.name = "upload" /\ op.at = "uploading" /\ op.callbacks < MaxCallbacks
  /\ \E percentage \in UploadCallbacks :
       op' = [Progress(op, <<percentage>>) EXCEPT !.callbacks = op.callbacks + 1]
  /\ UNCHANGED <<pc, listVars>>

\* storageService.upload returns the piece CID: percentage 100 and return;
\* upload goes on with percentage 80 and the contract phase
StorageUploaded ==
  /\ op.name = "upload" /\ op.at = "uploading"
  /\ op' = Step([Progress(op, <<100, 80>>) EXCEPT !.pieceCid = Str(Cid_bafk1)],
                "deploy", "signing")
  /\ UNCHANGED <<pc, listVars>>

\* privateKeyToAccount or signAuthorization throws
SigningFails ==
  /\ op.name = "upload" /\ op.at = "signing"
  /\ op' = ContractCatch(op)
  /\ UNCHANGED <<pc, listVars>>

Signed ==
  /\ op.name = "upload" /\ op.at = "signing"
  /\ op' = [op EXCEPT !.at = "kernel"]
  /\ UNCHANGED <<pc, listVars>>

\* getKernelClient rejects
KernelClientFails ==
  /\ op.name = "upload" /\ op.at = "kernel"
  /\ op' = ContractCatch(op)
  /\ UNCHANGED <<pc, listVars>>

KernelClientCreated ==
  /\ op.name = "upload" /\ op.at = "kernel"
  /\ op' = [op EXCEPT !.at = "deploying"]
  /\ UNCHANGED <<pc, listVars>>

\* deployPermissionedData rejects
DeployFails ==
  /\ op.name = "upload" /\ op.at = "deploying"
  /\ op' = ContractCatch(op)
  /\ UNCHANGED <<pc, listVars>>

\* deployPermissionedData returns its hash; the NFT is minted for a private
\* file only
Deployed ==
  /\ op.name = "upload" /\ op.at = "deploying"
  /\ op' = IF op.isPublic
           THEN Finish([op EXCEPT !.contractTxHash = DeployTxHash])
           ELSE [op EXCEPT !.at = "minting"]
  /\ UNCHANGED <<pc, listVars>>

\* mintOwnerNFT throws after its attempts
MintFails ==
  /\ op.name = "upload" /\ op.at = "minting"
  /\ op' = ContractCatch(op)
  /\ UNCHANGED <<pc, listVars>>

Minted ==
  /\ op.name = "upload" /\ op.at = "minting"
  /\ op' = Finish([op EXCEPT !.contractTxHash = DeployTxHash])
  /\ UNCHANGED <<pc, listVars>>

NextUpload ==
  \/ UploadStart
  \/ EncryptFails
  \/ Encrypted
  \/ PaymentFails
  \/ PaymentValidated
  \/ StorageFails
  \/ StorageAddressed
  \/ ProofsetLookedUp
  \/ CreateStorageCallback
  \/ StorageCreated
  \/ UploadCallback
  \/ StorageUploaded
  \/ SigningFails
  \/ Signed
  \/ KernelClientFails
  \/ KernelClientCreated
  \/ DeployFails
  \/ Deployed
  \/ MintFails
  \/ Minted

SpecUpload == InitUpload /\ [][NextUpload]_vars

\* C34: when the contract phase of upload fails after the storage upload
\* succeeded, upload does not throw: it returns a result with the piece CID
\* and with contractTxHash undefined.
C34_ContractFailureIsNotThrown ==
  (op.name = "upload" /\ op.contractError) =>
    /\ op.at = "returned"
    /\ op.error = NoError
    /\ op.returned.pieceCid = Str(Cid_bafk1)
    /\ op.returned.contractTxHash = Undefined

\* the mint of the owner NFT of a private file failed after the deploy
C34_Witness ==
  /\ op.name = "upload" /\ op.contractError
  /\ ~op.isPublic
  /\ op.at = "returned"
  /\ op.returned.contractTxHash = Undefined

\* the steps of an upload that runs to its end
AllSteps(o) ==
  IF o.skipPaymentCheck
  THEN <<"encrypt", "storage", "deploy">>
  ELSE <<"encrypt", "payment", "storage", "deploy">>

IsPrefix(s, t) == Len(s) <= Len(t) /\ SubSeq(t, 1, Len(s)) = s

Started(step) == \E i \in 1..Len(op.steps) : op.steps[i] = step

C35_WitnessPaymentFails ==
  /\ op.name = "upload" /\ op.at = "threw"
  /\ op.error.category = "PAYMENT"
  /\ op.steps = <<"encrypt", "payment">>

\* C37: within one upload call, the percentage values delivered to the
\* onProgress callback are non-decreasing from the first event (0) to the
\* last (100).
C37_ProgressNonDecreasing ==
  op.name = "upload" =>
    \A i \in 1..(Len(op.progress) - 1) : op.progress[i] <= op.progress[i + 1]

(***************************************************************************)
(* The Lit client of one SDK instance: lazy creation and cleanup.          *)
(***************************************************************************)
\* the upload and download calls made on the instance
MaxCalls == 3

\* the cleanup calls made on the instance
MaxCleanups == 2

\* this.litClient = null
NoClient == 0

\* litClient: the field; created: the clients createLitClient has made,
\* numbered from 1; connected: the ones disconnect was never called on;
\* sinceCleanup: the ones made since the last cleanup call; calls: how far
\* each call is; cleanup: the client a running cleanup is disconnecting;
\* warned: the disconnects that threw
InitLit ==
  /\ ListIdle
  /\ op = [name |-> "lit", litClient |-> NoClient, created |-> 0, connected |-> {},
           sinceCleanup |-> 0, calls |-> [c \in 1..MaxCalls |-> "idle"],
           cleanups |-> 0, cleanup |-> NoClient, warned |-> 0]

\* if (this.litClient) return this.litClient; else createLitClient is called
InitializeStart(c) ==
  /\ op.name = "lit" /\ op.calls[c] = "idle"
  /\ op' = [op EXCEPT !.calls[c] = IF op.litClient # NoClient THEN "using" ELSE "creating"]
  /\ UNCHANGED <<pc, listVars>>

\* this.litClient = await createLitClient(...)
InitializeCreated(c) ==
  /\ op.name = "lit" /\ op.calls[c] = "creating"
  /\ op' = [op EXCEPT !.calls[c] = "using",
                      !.created = op.created + 1,
                      !.litClient = op.created + 1,
                      !.connected = op.connected \cup { op.created + 1 },
                      !.sinceCleanup = op.sinceCleanup + 1]
  /\ UNCHANGED <<pc, listVars>>

\* createLitClient rejects: the call throws the encryption error
InitializeFails(c) ==
  /\ op.name = "lit" /\ op.calls[c] = "creating"
  /\ op' = [op EXCEPT !.calls[c] = "threw"]
  /\ UNCHANGED <<pc, listVars>>

\* encrypt or decrypt is over
CallEnds(c) ==
  /\ op.name = "lit" /\ op.calls[c] = "using"
  /\ op' = [op EXCEPT !.calls[c] = "done"]
  /\ UNCHANGED <<pc, listVars>>

\* cleanup is called: if (this.litClient) this.litClient.disconnect() starts
CleanupStart ==
  /\ op.name = "lit" /\ op.cleanup = NoClient /\ op.cleanups < MaxCleanups
  /\ op' = [op EXCEPT !.cleanups = op.cleanups + 1,
                      !.sinceCleanup = 0,
                      !.cleanup = op.litClient,
                      !.connected = op.connected \ { op.litClient }]
  /\ UNCHANGED <<pc, listVars>>

\* disconnect is over, or has thrown and was warned about: this.litClient = null
CleanupEnd ==
  /\ op.name = "lit" /\ op.cleanup # NoClient
  /\ \E disconnected \in BOOLEAN :
       op' = [op EXCEPT !.cleanup = NoClient,
                        !.litClient = NoClient,
                        !.warned = IF disconnected THEN op.warned ELSE op.warned + 1]
  /\ UNCHANGED <<pc, listVars>>

NextLit ==
  \/ \E c \in 1..MaxCalls : InitializeStart(c)
  \/ \E c \in 1..MaxCalls : InitializeCreated(c)
  \/ \E c \in 1..MaxCalls : InitializeFails(c)
  \/ \E c \in 1..MaxCalls : CallEnds(c)
  \/ CleanupStart
  \/ CleanupEnd

SpecLit == InitLit /\ [][NextLit]_vars

\* C38: on one SDK instance the Lit client is created at most once between
\* two cleanup calls, for every interleaving of concurrent upload and
\* download calls: lazy initialisation never creates a second client that
\* cleanup would not disconnect.
C38_OneLitClientBetweenCleanups ==
  op.name = "lit" =>
    /\ op.sinceCleanup <= 1
    /\ op.cleanup = NoClient => op.connected \subseteq { op.litClient }

====
